---- MODULE Spec2Model ----
(***************************************************************************)
(* Model of the pro-smm-panel-v2 repository: the file-backed SMM panel     *)
(* (src/unnamed/part_000), the serverless order handler                    *)
(* (src/unnamed/part_001) and the Hexachats chat server (src/server.js).   *)
(*                                                                         *)
(* Text that the code compares after toLowerCase() or trim() is a sequence *)
(* of character codes ("a" is <<97>>, "A" is <<65>>), so that the          *)
(* conversions are computed, not assumed.  Opaque text is a TLA+ string.   *)
(* An optional value (session.user, a found record) is a sequence of       *)
(* length 0 or 1.                                                          *)
(***************************************************************************)
EXTENDS Integers, Sequences, FiniteSets, TLC

VARIABLES
    now,            \* the clock read by Date.now()
    nextUuid,       \* source of uuidv4() / randomUUID() values
    \* ---- file-backed panel (src/unnamed/part_000)
    gmailUser,      \* process.env.GMAIL_USER, <<>> when not configured
    usersFile,      \* db/users.json
    servicesFile,   \* db/services.json
    ordersFile,     \* db/orders.json
    fileBytes,      \* per file: its size in bytes and the newlines it ends with
    sessions,       \* express-session store: session id -> session.user
    clientSid,      \* per client: the session id in its cookie, 0 for none
    pc,             \* per in-flight request: the await it is suspended at
    loc,            \* per in-flight request: its local variables
    res,            \* the last HTTP response sent by the panel
    \* ---- serverless order handler (src/unnamed/part_001)
    slOrders,       \* data/orders.json of the serverless variant
    slPc,           \* "idle" or "mail": suspended at await sendMail
    slOrder,        \* the handler's local `order` while suspended
    slRes,          \* the last HTTP response of the serverless handler
    slServices,     \* data/services.json of the serverless variant
    \* ---- chat server (src/server.js)
    users, contacts, chats, statuses, calls,
    userSockets,    \* the entries of userSockets, in insertion order
    sock,           \* per socket: "new", "open" (connected) or "closed"
    cpc,            \* per in-flight chat request: the await it is suspended at
    cloc,           \* per in-flight chat request: its local variables
    cres,           \* the last HTTP response sent by the chat server
    emitted         \* socket events emitted by the last handler run

panelVars == <<gmailUser, usersFile, servicesFile, ordersFile, fileBytes,
               sessions, clientSid, pc, loc, res>>
slVars    == <<slOrders, slPc, slOrder, slRes, slServices>>
chatVars  == <<users, contacts, chats, statuses, calls, userSockets, sock,
               cpc, cloc, cres, emitted>>
vars      == <<panelVars, now, nextUuid, slVars, chatVars>>

(***************************************************************************)
(* Bounds of the model.                                                    *)
(***************************************************************************)
NumHandlers == 2    \* panel requests that may be in flight together
MaxUsers    == 2    \* panel signups admitted
MaxOrders   == 2    \* order placements admitted (each variant)
MaxClock    == 2    \* distinct clock readings
MaxMsgs     == 2    \* chat messages sent while all their copies are stored
MaxLog      == 1    \* status and call records per chat user
MaxServices == 2    \* services in the serverless catalog
MaxSids     == 2    \* session ids the panel's session store issues

Handlers == 1..NumHandlers
Clients  == {"c1"}

(***************************************************************************)
(* Text helpers.                                                           *)
(***************************************************************************)
Range(s) == {s[i] : i \in DOMAIN s}

\* A character is a Unicode code point.  The simple lower-case mappings of
\* String.prototype.toLowerCase, as runs <<first, last, step, delta>>: every
\* step-th code point from first to last maps to itself plus delta.
LowerRuns ==
    {<<65, 90, 1, 32>>, <<192, 214, 1, 32>>, <<216, 222, 1, 32>>,
     <<256, 302, 2, 1>>, <<306, 310, 2, 1>>, <<313, 327, 2, 1>>,
     <<330, 374, 2, 1>>, <<376, 376, 1, -121>>, <<377, 381, 2, 1>>,
     <<385, 385, 1, 210>>, <<386, 388, 2, 1>>, <<390, 390, 1, 206>>,
     <<391, 391, 1, 1>>, <<393, 394, 1, 205>>, <<395, 395, 1, 1>>,
     <<398, 398, 1, 79>>, <<399, 399, 1, 202>>, <<400, 400, 1, 203>>,
     <<401, 401, 1, 1>>, <<403, 403, 1, 205>>, <<404, 404, 1, 207>>,
     <<406, 406, 1, 211>>, <<407, 407, 1, 209>>, <<408, 408, 1, 1>>,
     <<412, 412, 1, 211>>, <<413, 413, 1, 213>>, <<415, 415, 1, 214>>,
     <<416, 420, 2, 1>>, <<422, 422, 1, 218>>, <<423, 423, 1, 1>>,
     <<425, 425, 1, 218>>, <<428, 428, 1, 1>>, <<430, 430, 1, 218>>,
     <<431, 431, 1, 1>>, <<433, 434, 1, 217>>, <<435, 437, 2, 1>>,
     <<439, 439, 1, 219>>, <<440, 440, 1, 1>>, <<444, 444, 1, 1>>,
     <<452, 452, 1, 2>>, <<453, 453, 1, 1>>, <<455, 455, 1, 2>>,
     <<456, 456, 1, 1>>, <<458, 458, 1, 2>>, <<459, 475, 2, 1>>,
     <<478, 494, 2, 1>>, <<497, 497, 1, 2>>, <<498, 500, 2, 1>>,
     <<502, 502, 1, -97>>, <<503, 503, 1, -56>>, <<504, 542, 2, 1>>,
     <<544, 544, 1, -130>>, <<546, 562, 2, 1>>, <<570, 570, 1, 10795>>,
     <<571, 571, 1, 1>>, <<573, 573, 1, -163>>, <<574, 574, 1, 10792>>,
     <<577, 577, 1, 1>>, <<579, 579, 1, -195>>, <<580, 580, 1, 69>>,
     <<581, 581, 1, 71>>, <<582, 590, 2, 1>>, <<880, 882, 2, 1>>,
     <<886, 886, 1, 1>>, <<895, 895, 1, 116>>, <<902, 902, 1, 38>>,
     <<904, 906, 1, 37>>, <<908, 908, 1, 64>>, <<910, 911, 1, 63>>,
     <<913, 929, 1, 32>>, <<931, 939, 1, 32>>, <<975, 975, 1, 8>>,
     <<984, 1006, 2, 1>>, <<1012, 1012, 1, -60>>, <<1015, 1015, 1, 1>>,
     <<1017, 1017, 1, -7>>, <<1018, 1018, 1, 1>>, <<1021, 1023, 1, -130>>,
     <<1024, 1039, 1, 80>>, <<1040, 1071, 1, 32>>, <<1120, 1152, 2, 1>>,
     <<1162, 1214, 2, 1>>, <<1216, 1216, 1, 15>>, <<1217, 1229, 2, 1>>,
     <<1232, 1326, 2, 1>>, <<1329, 1366, 1, 48>>, <<4256, 4293, 1, 7264>>,
     <<4295, 4295, 1, 7264>>, <<4301, 4301, 1, 7264>>,
     <<5024, 5103, 1, 38864>>, <<5104, 5109, 1, 8>>, <<7305, 7305, 1, 1>>,
     <<7312, 7354, 1, -3008>>, <<7357, 7359, 1, -3008>>, <<7680, 7828, 2, 1>>,
     <<7838, 7838, 1, -7615>>, <<7840, 7934, 2, 1>>, <<7944, 7951, 1, -8>>,
     <<7960, 7965, 1, -8>>, <<7976, 7983, 1, -8>>, <<7992, 7999, 1, -8>>,
     <<8008, 8013, 1, -8>>, <<8025, 8031, 2, -8>>, <<8040, 8047, 1, -8>>,
     <<8072, 8079, 1, -8>>, <<8088, 8095, 1, -8>>, <<8104, 8111, 1, -8>>,
     <<8120, 8121, 1, -8>>, <<8122, 8123, 1, -74>>, <<8124, 8124, 1, -9>>,
     <<8136, 8139, 1, -86>>, <<8140, 8140, 1, -9>>, <<8152, 8153, 1, -8>>,
     <<8154, 8155, 1, -100>>, <<8168, 8169, 1, -8>>, <<8170, 8171, 1, -112>>,
     <<8172, 8172, 1, -7>>, <<8184, 8185, 1, -128>>, <<8186, 8187, 1, -126>>,
     <<8188, 8188, 1, -9>>, <<8486, 8486, 1, -7517>>,
     <<8490, 8490, 1, -8383>>, <<8491, 8491, 1, -8262>>,
     <<8498, 8498, 1, 28>>, <<8544, 8559, 1, 16>>, <<8579, 8579, 1, 1>>,
     <<9398, 9423, 1, 26>>, <<11264, 11311, 1, 48>>, <<11360, 11360, 1, 1>>,
     <<11362, 11362, 1, -10743>>, <<11363, 11363, 1, -3814>>,
     <<11364, 11364, 1, -10727>>, <<11367, 11371, 2, 1>>,
     <<11373, 11373, 1, -10780>>, <<11374, 11374, 1, -10749>>,
     <<11375, 11375, 1, -10783>>, <<11376, 11376, 1, -10782>>,
     <<11378, 11378, 1, 1>>, <<11381, 11381, 1, 1>>,
     <<11390, 11391, 1, -10815>>, <<11392, 11490, 2, 1>>,
     <<11499, 11501, 2, 1>>, <<11506, 11506, 1, 1>>, <<42560, 42604, 2, 1>>,
     <<42624, 42650, 2, 1>>, <<42786, 42798, 2, 1>>, <<42802, 42862, 2, 1>>,
     <<42873, 42875, 2, 1>>, <<42877, 42877, 1, -35332>>,
     <<42878, 42886, 2, 1>>, <<42891, 42891, 1, 1>>,
     <<42893, 42893, 1, -42280>>, <<42896, 42898, 2, 1>>,
     <<42902, 42920, 2, 1>>, <<42922, 42922, 1, -42308>>,
     <<42923, 42923, 1, -42319>>, <<42924, 42924, 1, -42315>>,
     <<42925, 42925, 1, -42305>>, <<42926, 42926, 1, -42308>>,
     <<42928, 42928, 1, -42258>>, <<42929, 42929, 1, -42282>>,
     <<42930, 42930, 1, -42261>>, <<42931, 42931, 1, 928>>,
     <<42932, 42946, 2, 1>>, <<42948, 42948, 1, -48>>,
     <<42949, 42949, 1, -42307>>, <<42950, 42950, 1, -35384>>,
     <<42951, 42953, 2, 1>>, <<42955, 42955, 1, -42343>>,
     <<42956, 42970, 2, 1>>, <<42972, 42972, 1, -42561>>,
     <<42997, 42997, 1, 1>>, <<65313, 65338, 1, 32>>, <<66560, 66599, 1, 40>>,
     <<66736, 66771, 1, 40>>, <<66928, 66964, 2, 39>>,
     <<66929, 66937, 2, 39>>, <<66941, 66953, 2, 39>>,
     <<66957, 66961, 2, 39>>, <<66965, 66965, 1, 39>>,
     <<68736, 68786, 1, 64>>, <<68944, 68965, 1, 32>>,
     <<71840, 71871, 1, 32>>, <<93760, 93791, 1, 32>>,
     <<93856, 93880, 1, 27>>, <<125184, 125217, 1, 34>>}

\* The code points with the property Cased (Unicode 17.0), as ranges
\* <<first, last>>.
CasedRanges ==
    {<<65, 90>>, <<97, 122>>, <<170, 170>>, <<181, 181>>, <<186, 186>>,
     <<192, 214>>, <<216, 246>>, <<248, 442>>, <<444, 447>>, <<452, 659>>,
     <<662, 696>>, <<704, 705>>, <<736, 740>>, <<837, 837>>, <<880, 883>>,
     <<886, 887>>, <<890, 893>>, <<895, 895>>, <<902, 902>>, <<904, 906>>,
     <<908, 908>>, <<910, 929>>, <<931, 1013>>, <<1015, 1153>>,
     <<1162, 1327>>, <<1329, 1366>>, <<1376, 1416>>, <<4256, 4293>>,
     <<4295, 4295>>, <<4301, 4301>>, <<4304, 4346>>, <<4348, 4351>>,
     <<5024, 5109>>, <<5112, 5117>>, <<7296, 7306>>, <<7312, 7354>>,
     <<7357, 7359>>, <<7424, 7615>>, <<7680, 7957>>, <<7960, 7965>>,
     <<7968, 8005>>, <<8008, 8013>>, <<8016, 8023>>, <<8025, 8025>>,
     <<8027, 8027>>, <<8029, 8029>>, <<8031, 8061>>, <<8064, 8116>>,
     <<8118, 8124>>, <<8126, 8126>>, <<8130, 8132>>, <<8134, 8140>>,
     <<8144, 8147>>, <<8150, 8155>>, <<8160, 8172>>, <<8178, 8180>>,
     <<8182, 8188>>, <<8305, 8305>>, <<8319, 8319>>, <<8336, 8348>>,
     <<8450, 8450>>, <<8455, 8455>>, <<8458, 8467>>, <<8469, 8469>>,
     <<8473, 8477>>, <<8484, 8484>>, <<8486, 8486>>, <<8488, 8488>>,
     <<8490, 8493>>, <<8495, 8500>>, <<8505, 8505>>, <<8508, 8511>>,
     <<8517, 8521>>, <<8526, 8526>>, <<8544, 8575>>, <<8579, 8580>>,
     <<9398, 9449>>, <<11264, 11492>>, <<11499, 11502>>, <<11506, 11507>>,
     <<11520, 11557>>, <<11559, 11559>>, <<11565, 11565>>, <<42560, 42605>>,
     <<42624, 42653>>, <<42786, 42887>>, <<42891, 42894>>, <<42896, 42972>>,
     <<42993, 42998>>, <<43000, 43002>>, <<43824, 43866>>, <<43868, 43881>>,
     <<43888, 43967>>, <<64256, 64262>>, <<64275, 64279>>, <<65313, 65338>>,
     <<65345, 65370>>, <<66560, 66639>>, <<66736, 66771>>, <<66776, 66811>>,
     <<66928, 66938>>, <<66940, 66954>>, <<66956, 66962>>, <<66964, 66965>>,
     <<66967, 66977>>, <<66979, 66993>>, <<66995, 67001>>, <<67003, 67004>>,
     <<67456, 67456>>, <<67459, 67461>>, <<67463, 67504>>, <<67506, 67514>>,
     <<68736, 68786>>, <<68800, 68850>>, <<68944, 68965>>, <<68976, 68997>>,
     <<71840, 71903>>, <<93760, 93823>>, <<93856, 93880>>, <<93883, 93907>>,
     <<119808, 119892>>, <<119894, 119964>>, <<119966, 119967>>,
     <<119970, 119970>>, <<119973, 119974>>, <<119977, 119980>>,
     <<119982, 119993>>, <<119995, 119995>>, <<119997, 120003>>,
     <<120005, 120069>>, <<120071, 120074>>, <<120077, 120084>>,
     <<120086, 120092>>, <<120094, 120121>>, <<120123, 120126>>,
     <<120128, 120132>>, <<120134, 120134>>, <<120138, 120144>>,
     <<120146, 120485>>, <<120488, 120512>>, <<120514, 120538>>,
     <<120540, 120570>>, <<120572, 120596>>, <<120598, 120628>>,
     <<120630, 120654>>, <<120656, 120686>>, <<120688, 120712>>,
     <<120714, 120744>>, <<120746, 120770>>, <<120772, 120779>>,
     <<122624, 122633>>, <<122635, 122654>>, <<122661, 122666>>,
     <<122928, 122989>>, <<125184, 125251>>, <<127280, 127305>>,
     <<127312, 127337>>, <<127344, 127369>>}

\* The code points with the property Case_Ignorable (Unicode 17.0), as
\* ranges <<first, last>>.
CaseIgnorableRanges ==
    {<<39, 39>>, <<46, 46>>, <<58, 58>>, <<94, 94>>, <<96, 96>>, <<168, 168>>,
     <<173, 173>>, <<175, 175>>, <<180, 180>>, <<183, 184>>, <<688, 879>>,
     <<884, 885>>, <<890, 890>>, <<900, 901>>, <<903, 903>>, <<1155, 1161>>,
     <<1369, 1369>>, <<1375, 1375>>, <<1425, 1469>>, <<1471, 1471>>,
     <<1473, 1474>>, <<1476, 1477>>, <<1479, 1479>>, <<1524, 1524>>,
     <<1536, 1541>>, <<1552, 1562>>, <<1564, 1564>>, <<1600, 1600>>,
     <<1611, 1631>>, <<1648, 1648>>, <<1750, 1757>>, <<1759, 1768>>,
     <<1770, 1773>>, <<1807, 1807>>, <<1809, 1809>>, <<1840, 1866>>,
     <<1958, 1968>>, <<2027, 2037>>, <<2042, 2042>>, <<2045, 2045>>,
     <<2070, 2093>>, <<2137, 2139>>, <<2184, 2184>>, <<2192, 2193>>,
     <<2199, 2207>>, <<2249, 2306>>, <<2362, 2362>>, <<2364, 2364>>,
     <<2369, 2376>>, <<2381, 2381>>, <<2385, 2391>>, <<2402, 2403>>,
     <<2417, 2417>>, <<2433, 2433>>, <<2492, 2492>>, <<2497, 2500>>,
     <<2509, 2509>>, <<2530, 2531>>, <<2558, 2558>>, <<2561, 2562>>,
     <<2620, 2620>>, <<2625, 2626>>, <<2631, 2632>>, <<2635, 2637>>,
     <<2641, 2641>>, <<2672, 2673>>, <<2677, 2677>>, <<2689, 2690>>,
     <<2748, 2748>>, <<2753, 2757>>, <<2759, 2760>>, <<2765, 2765>>,
     <<2786, 2787>>, <<2810, 2815>>, <<2817, 2817>>, <<2876, 2876>>,
     <<2879, 2879>>, <<2881, 2884>>, <<2893, 2893>>, <<2901, 2902>>,
     <<2914, 2915>>, <<2946, 2946>>, <<3008, 3008>>, <<3021, 3021>>,
     <<3072, 3072>>, <<3076, 3076>>, <<3132, 3132>>, <<3134, 3136>>,
     <<3142, 3144>>, <<3146, 3149>>, <<3157, 3158>>, <<3170, 3171>>,
     <<3201, 3201>>, <<3260, 3260>>, <<3263, 3263>>, <<3270, 3270>>,
     <<3276, 3277>>, <<3298, 3299>>, <<3328, 3329>>, <<3387, 3388>>,
     <<3393, 3396>>, <<3405, 3405>>, <<3426, 3427>>, <<3457, 3457>>,
     <<3530, 3530>>, <<3538, 3540>>, <<3542, 3542>>, <<3633, 3633>>,
     <<3636, 3642>>, <<3654, 3662>>, <<3761, 3761>>, <<3764, 3772>>,
     <<3782, 3782>>, <<3784, 3790>>, <<3864, 3865>>, <<3893, 3893>>,
     <<3895, 3895>>, <<3897, 3897>>, <<3953, 3966>>, <<3968, 3972>>,
     <<3974, 3975>>, <<3981, 3991>>, <<3993, 4028>>, <<4038, 4038>>,
     <<4141, 4144>>, <<4146, 4151>>, <<4153, 4154>>, <<4157, 4158>>,
     <<4184, 4185>>, <<4190, 4192>>, <<4209, 4212>>, <<4226, 4226>>,
     <<4229, 4230>>, <<4237, 4237>>, <<4253, 4253>>, <<4348, 4348>>,
     <<4957, 4959>>, <<5906, 5908>>, <<5938, 5939>>, <<5970, 5971>>,
     <<6002, 6003>>, <<6068, 6069>>, <<6071, 6077>>, <<6086, 6086>>,
     <<6089, 6099>>, <<6103, 6103>>, <<6109, 6109>>, <<6155, 6159>>,
     <<6211, 6211>>, <<6277, 6278>>, <<6313, 6313>>, <<6432, 6434>>,
     <<6439, 6440>>, <<6450, 6450>>, <<6457, 6459>>, <<6679, 6680>>,
     <<6683, 6683>>, <<6742, 6742>>, <<6744, 6750>>, <<6752, 6752>>,
     <<6754, 6754>>, <<6757, 6764>>, <<6771, 6780>>, <<6783, 6783>>,
     <<6823, 6823>>, <<6832, 6877>>, <<6880, 6891>>, <<6912, 6915>>,
     <<6964, 6964>>, <<6966, 6970>>, <<6972, 6972>>, <<6978, 6978>>,
     <<7019, 7027>>, <<7040, 7041>>, <<7074, 7077>>, <<7080, 7081>>,
     <<7083, 7085>>, <<7142, 7142>>, <<7144, 7145>>, <<7149, 7149>>,
     <<7151, 7153>>, <<7212, 7219>>, <<7222, 7223>>, <<7288, 7293>>,
     <<7376, 7378>>, <<7380, 7392>>, <<7394, 7400>>, <<7405, 7405>>,
     <<7412, 7412>>, <<7416, 7417>>, <<7468, 7530>>, <<7544, 7544>>,
     <<7579, 7679>>, <<8125, 8125>>, <<8127, 8129>>, <<8141, 8143>>,
     <<8157, 8159>>, <<8173, 8175>>, <<8189, 8190>>, <<8203, 8207>>,
     <<8216, 8217>>, <<8228, 8228>>, <<8231, 8231>>, <<8234, 8238>>,
     <<8288, 8292>>, <<8294, 8303>>, <<8305, 8305>>, <<8319, 8319>>,
     <<8336, 8348>>, <<8400, 8432>>, <<11388, 11389>>, <<11503, 11505>>,
     <<11631, 11631>>, <<11647, 11647>>, <<11744, 11775>>, <<11823, 11823>>,
     <<12293, 12293>>, <<12330, 12333>>, <<12337, 12341>>, <<12347, 12347>>,
     <<12441, 12446>>, <<12540, 12542>>, <<40981, 40981>>, <<42232, 42237>>,
     <<42508, 42508>>, <<42607, 42610>>, <<42612, 42621>>, <<42623, 42623>>,
     <<42652, 42655>>, <<42736, 42737>>, <<42752, 42785>>, <<42864, 42864>>,
     <<42888, 42890>>, <<42993, 42996>>, <<43000, 43001>>, <<43010, 43010>>,
     <<43014, 43014>>, <<43019, 43019>>, <<43045, 43046>>, <<43052, 43052>>,
     <<43204, 43205>>, <<43232, 43249>>, <<43263, 43263>>, <<43302, 43309>>,
     <<43335, 43345>>, <<43392, 43394>>, <<43443, 43443>>, <<43446, 43449>>,
     <<43452, 43453>>, <<43471, 43471>>, <<43493, 43494>>, <<43561, 43566>>,
     <<43569, 43570>>, <<43573, 43574>>, <<43587, 43587>>, <<43596, 43596>>,
     <<43632, 43632>>, <<43644, 43644>>, <<43696, 43696>>, <<43698, 43700>>,
     <<43703, 43704>>, <<43710, 43711>>, <<43713, 43713>>, <<43741, 43741>>,
     <<43756, 43757>>, <<43763, 43764>>, <<43766, 43766>>, <<43867, 43871>>,
     <<43881, 43883>>, <<44005, 44005>>, <<44008, 44008>>, <<44013, 44013>>,
     <<64286, 64286>>, <<64434, 64450>>, <<65024, 65039>>, <<65043, 65043>>,
     <<65056, 65071>>, <<65106, 65106>>, <<65109, 65109>>, <<65279, 65279>>,
     <<65287, 65287>>, <<65294, 65294>>, <<65306, 65306>>, <<65342, 65342>>,
     <<65344, 65344>>, <<65392, 65392>>, <<65438, 65439>>, <<65507, 65507>>,
     <<65529, 65531>>, <<66045, 66045>>, <<66272, 66272>>, <<66422, 66426>>,
     <<67456, 67461>>, <<67463, 67504>>, <<67506, 67514>>, <<68097, 68099>>,
     <<68101, 68102>>, <<68108, 68111>>, <<68152, 68154>>, <<68159, 68159>>,
     <<68325, 68326>>, <<68900, 68903>>, <<68942, 68942>>, <<68969, 68973>>,
     <<68975, 68975>>, <<69291, 69292>>, <<69317, 69317>>, <<69370, 69375>>,
     <<69446, 69456>>, <<69506, 69509>>, <<69633, 69633>>, <<69688, 69702>>,
     <<69744, 69744>>, <<69747, 69748>>, <<69759, 69761>>, <<69811, 69814>>,
     <<69817, 69818>>, <<69821, 69821>>, <<69826, 69826>>, <<69837, 69837>>,
     <<69888, 69890>>, <<69927, 69931>>, <<69933, 69940>>, <<70003, 70003>>,
     <<70016, 70017>>, <<70070, 70078>>, <<70089, 70092>>, <<70095, 70095>>,
     <<70191, 70193>>, <<70196, 70196>>, <<70198, 70199>>, <<70206, 70206>>,
     <<70209, 70209>>, <<70367, 70367>>, <<70371, 70378>>, <<70400, 70401>>,
     <<70459, 70460>>, <<70464, 70464>>, <<70502, 70508>>, <<70512, 70516>>,
     <<70587, 70592>>, <<70606, 70606>>, <<70608, 70608>>, <<70610, 70610>>,
     <<70625, 70626>>, <<70712, 70719>>, <<70722, 70724>>, <<70726, 70726>>,
     <<70750, 70750>>, <<70835, 70840>>, <<70842, 70842>>, <<70847, 70848>>,
     <<70850, 70851>>, <<71090, 71093>>, <<71100, 71101>>, <<71103, 71104>>,
     <<71132, 71133>>, <<71219, 71226>>, <<71229, 71229>>, <<71231, 71232>>,
     <<71339, 71339>>, <<71341, 71341>>, <<71344, 71349>>, <<71351, 71351>>,
     <<71453, 71453>>, <<71455, 71455>>, <<71458, 71461>>, <<71463, 71467>>,
     <<71727, 71735>>, <<71737, 71738>>, <<71995, 71996>>, <<71998, 71998>>,
     <<72003, 72003>>, <<72148, 72151>>, <<72154, 72155>>, <<72160, 72160>>,
     <<72193, 72202>>, <<72243, 72248>>, <<72251, 72254>>, <<72263, 72263>>,
     <<72273, 72278>>, <<72281, 72283>>, <<72330, 72342>>, <<72344, 72345>>,
     <<72544, 72544>>, <<72546, 72548>>, <<72550, 72550>>, <<72752, 72758>>,
     <<72760, 72765>>, <<72767, 72767>>, <<72850, 72871>>, <<72874, 72880>>,
     <<72882, 72883>>, <<72885, 72886>>, <<73009, 73014>>, <<73018, 73018>>,
     <<73020, 73021>>, <<73023, 73029>>, <<73031, 73031>>, <<73104, 73105>>,
     <<73109, 73109>>, <<73111, 73111>>, <<73177, 73177>>, <<73459, 73460>>,
     <<73472, 73473>>, <<73526, 73530>>, <<73536, 73536>>, <<73538, 73538>>,
     <<73562, 73562>>, <<78896, 78912>>, <<78919, 78933>>, <<90398, 90409>>,
     <<90413, 90415>>, <<92912, 92916>>, <<92976, 92982>>, <<92992, 92995>>,
     <<93504, 93506>>, <<93547, 93548>>, <<94031, 94031>>, <<94095, 94111>>,
     <<94176, 94177>>, <<94179, 94180>>, <<94194, 94195>>, <<110576, 110579>>,
     <<110581, 110587>>, <<110589, 110590>>, <<113821, 113822>>,
     <<113824, 113827>>, <<118528, 118573>>, <<118576, 118598>>,
     <<119143, 119145>>, <<119155, 119170>>, <<119173, 119179>>,
     <<119210, 119213>>, <<119362, 119364>>, <<121344, 121398>>,
     <<121403, 121452>>, <<121461, 121461>>, <<121476, 121476>>,
     <<121499, 121503>>, <<121505, 121519>>, <<122880, 122886>>,
     <<122888, 122904>>, <<122907, 122913>>, <<122915, 122916>>,
     <<122918, 122922>>, <<122928, 122989>>, <<123023, 123023>>,
     <<123184, 123197>>, <<123566, 123566>>, <<123628, 123631>>,
     <<124139, 124143>>, <<124398, 124399>>, <<124643, 124643>>,
     <<124646, 124646>>, <<124654, 124655>>, <<124661, 124661>>,
     <<124671, 124671>>, <<125136, 125142>>, <<125252, 125259>>,
     <<127995, 127999>>, <<917505, 917505>>, <<917536, 917631>>,
     <<917760, 917999>>}

Cased(c) == \E r \in CasedRanges : c >= r[1] /\ c <= r[2]

CaseIgnorable(c) == \E r \in CaseIgnorableRanges : c >= r[1] /\ c <= r[2]

\* Final_Sigma: skipping case-ignorable characters, the capital sigma at
\* s[i] follows a cased letter and is not followed by one.
FinalSigma(s, i) ==
    /\ \E j \in 1..(i - 1) :
          /\ ~CaseIgnorable(s[j]) /\ Cased(s[j])
          /\ \A k \in (j + 1)..(i - 1) : CaseIgnorable(s[k])
    /\ ~\E j \in (i + 1)..Len(s) :
          /\ ~CaseIgnorable(s[j]) /\ Cased(s[j])
          /\ \A k \in (i + 1)..(j - 1) : CaseIgnorable(s[k])

\* The lower-case form of s[i]: one character, or two for U+0130.
LowerAt(s, i) ==
    LET c == s[i]
    IN IF c < 128 THEN (IF c >= 65 /\ c <= 90 THEN <<c + 32>> ELSE <<c>>)
       ELSE IF c = 304 THEN <<105, 775>>
       ELSE IF c = 931 /\ FinalSigma(s, i) THEN <<962>>
       ELSE IF \E r \in LowerRuns : c >= r[1] /\ c <= r[2] /\ (c - r[1]) % r[3] = 0
       THEN LET r == CHOOSE r \in LowerRuns :
                        c >= r[1] /\ c <= r[2] /\ (c - r[1]) % r[3] = 0
            IN <<c + r[4]>>
       ELSE <<c>>

\* String.prototype.toLowerCase
toLowerCase(s) ==
    LET RECURSIVE From(_)
        From(i) == IF i > Len(s) THEN <<>> ELSE LowerAt(s, i) \o From(i + 1)
    IN From(1)

\* bcrypt.hash(password, 10): the stored value differs from the password.
bcryptHash(password) == "$2a$" \o password

\* bcrypt.compare(password, hash)
bcryptCompare(password, hash) == hash = bcryptHash(password)

(***************************************************************************)
(* FILE-BACKED PANEL  (src/unnamed/part_000)                               *)
(***************************************************************************)
\* Request inputs.  <<>> is the empty string "" and `undefined` a field the
\* body does not hold; both are falsy, and calling toLowerCase() on the
\* latter throws a TypeError.
undefined == <<-1>>

Falsy(x) == x = <<>> \/ x = undefined

AdminAddress == <<65, 100>>                          \* "Ad"
Statuses     == {"in progress", "done", "cancelled"}

SignupBody(u, e) ==
    [username |-> u, name |-> <<110>>, email |-> e, phone |-> "1", password |-> "p"]

\* The inputs of the interleaved signups: "a"/"\u00E0d", a username clash
\* with it ("A"/"u"), an email clash with it ("b"/"\u00C0D") and a missing
\* username.
SignupBodies ==
    {SignupBody(<<97>>, <<224, 100>>), SignupBody(<<65>>, <<117>>),
     SignupBody(<<98>>, <<192, 68>>), SignupBody(<<>>, <<117>>)}
LoginBodies   ==
    [username : {<<65>>, <<98>>}, password : {"p", "q"}]
        \cup {[username |-> undefined, password |-> "p"]}

\* The inputs of the one-at-a-time runs: an administrator ("a", "ad"), a
\* customer ("b", "u"), a clash with the first ("A", "AD") and a missing field.
SeqSignupBodies ==
    {SignupBody(<<97>>, <<97, 100>>), SignupBody(<<98>>, <<117>>),
     SignupBody(<<65>>, <<65, 68>>), SignupBody(<<>>, <<117>>)}
AddBodies     == [platform : {<<105, 103>>, <<>>}, name : {<<102>>}, price : {5}]
DeleteBodies  ==
    [platform : {<<73, 71>>, <<120>>}, name : {<<70>>}]
        \cup {[platform |-> <<73, 71>>, name |-> undefined]}
ToggleBodies  ==
    [platform : {<<73, 71>>}, name : {<<70>>, <<120>>}, active : BOOLEAN]
        \cup {[platform |-> undefined, name |-> <<70>>, active |-> FALSE]}
OrderBodies   ==
    [platform : {<<73, 71>>}, service : {<<70>>}, quantity : {0, 2},
     link : {"l"}, note : {""}, payment : {"EasyPaisa"}]
StatusBodies  == [id : 0..MaxClock, status : Statuses]

IdleLoc == [client |-> "-", sid |-> 0, sess |-> <<>>, body |-> [none |-> TRUE],
            list |-> <<>>, tmp |-> <<>>, io |-> "none"]

\* An HTTP response: its status code and the order data it carries.
Resp(status, data) == [status |-> status, data |-> data]

InFlight(states) == Cardinality({h \in Handlers : pc[h] \in states})

\* The part of req.session.user that signup and login store.
SessionUser(u) ==
    [id |-> u.id, username |-> u.username, name |-> u.name,
     email |-> u.email, phone |-> u.phone]

\* express-session on arrival of a request from client c: the id of the
\* session it loads, the one in the cookie when the store holds it.  Without
\* a cookie, or with one whose session the store no longer holds, the
\* request gets a session of its own under a newly generated id (0 here: the
\* id shows only once the session is saved).
ReqSid(c) ==
    IF clientSid[c] # 0 /\ sessions[clientSid[c]] # <<>>
    THEN clientSid[c]
    ELSE 0

\* req.session.user as that request finds it.
ReqSession(c) == IF ReqSid(c) = 0 THEN <<>> ELSE sessions[ReqSid(c)]

\* express-session at the end of the handler in slot h, with resave: false
\* and saveUninitialized: false: the session is written to the store only
\* when it differs from the one the request loaded on arrival, and under the
\* id the request holds, whatever has become of that id meanwhile.  A
\* session under a new id is sent to the client as its cookie; one saved
\* under the id the request came with sets no cookie.
SaveSession(h, user) ==
    IF loc[h].sess = <<user>>
    THEN UNCHANGED <<sessions, clientSid>>
    ELSE IF loc[h].sid = 0
    THEN /\ sessions' = Append(sessions, <<user>>)
         /\ clientSid' = [clientSid EXCEPT ![loc[h].client] = Len(sessions) + 1]
    ELSE /\ sessions' = [sessions EXCEPT ![loc[h].sid] = <<user>>]
         /\ UNCHANGED clientSid

\* authRequired: 401 without a session user, else next() (0).
authRequired(sess) == IF sess = <<>> THEN 401 ELSE 0

isAdmin(sess) ==
    /\ sess # <<>>
    /\ sess[1].email # <<>>
    /\ gmailUser # <<>>
    /\ toLowerCase(sess[1].email) = toLowerCase(gmailUser)

\* A plausible slip, of the kind line 76 already holds: testing the function
\* isAdmin itself instead of calling it.
adminRequired_notCalled(sess) == 0

\* adminRequired: 403 unless isAdmin, else next() (0).  Its first line,
\* `if (!authRequired) return`, tests a function value and never returns.
adminRequired(sess) == IF ~isAdmin(sess) THEN 403 ELSE 0

\* The middleware chain authRequired, adminRequired of every admin route.
AdminGate(sess) ==
    IF authRequired(sess) # 0 THEN authRequired(sess) ELSE adminRequired(sess)

\* What every panel action leaves alone.
PanelFrame == UNCHANGED <<slVars, chatVars>>

\* The handler in slot h responds and ends.
Finish(h, status, data) ==
    /\ pc' = [pc EXCEPT ![h] = "idle"]
    /\ loc' = [loc EXCEPT ![h] = IdleLoc]
    /\ res' = Resp(status, data)

\* The file an await reads or writes, by the name of the await.
FileAt(p) ==
    CASE p \in {"signup_read", "login_read"} -> [file |-> "users", op |-> "read"]
      [] p = "signup_write" -> [file |-> "users", op |-> "write"]
      [] p \in {"svclist_read", "svcadd_read", "svcdel_read", "svctog_read",
                "order_svc"} -> [file |-> "services", op |-> "read"]
      [] p \in {"svcadd_write", "svcdel_write", "svctog_write"} ->
            [file |-> "services", op |-> "write"]
      [] p \in {"order_read", "admlist_read", "admstat_read"} ->
            [file |-> "orders", op |-> "read"]
      [] p \in {"order_write", "admstat_write"} -> [file |-> "orders", op |-> "write"]
      [] OTHER -> [file |-> "-", op |-> "none"]

\* The handler in slot h suspends at the await named p with locals l.  An
\* await of readJSON or writeJSON has asked for a file operation that the
\* runtime carries out while the handler is suspended.
Await(h, p, l) ==
    /\ pc' = [pc EXCEPT ![h] = p]
    /\ loc' = [loc EXCEPT ![h] =
                  [l EXCEPT !.io = IF FileAt(p).op = "none" THEN "none" ELSE "asked"]]
    /\ UNCHANGED res

\* The server process is running.
Up == \A h \in Handlers : pc[h] # "down"

\* A handler throws outside any try block: the promise of the async handler
\* rejects with nothing to handle it and the process exits.  No response is
\* sent, every suspended handler and the sessions held in memory are gone;
\* the files and the clients' cookies stay as they are.
UnhandledRejection ==
    /\ pc' = [h \in Handlers |-> "down"]
    /\ loc' = [h \in Handlers |-> IdleLoc]
    /\ sessions' = [i \in DOMAIN sessions |-> <<>>]
    /\ UNCHANGED <<clientSid, res>>

\* The first index of s satisfying Test, 0 if none (Array.prototype.findIndex).
FindIndex(s, Test(_)) ==
    IF \E i \in DOMAIN s : Test(s[i])
    THEN CHOOSE i \in DOMAIN s : Test(s[i]) /\ \A j \in 1..(i - 1) : ~Test(s[j])
    ELSE 0

\* ----------------------------------------------------------------- files
\* The bytes JSON.stringify gives a string value: the quotes, two bytes for
\* an escaped quote, backslash, \b, \t, \n, \f or \r, six for any other
\* control character and for a lone surrogate (\uXXXX), and else the UTF-8
\* length of the code point.
JsonText(s) ==
    LET Char(cp) ==
            IF cp \in {8, 9, 10, 12, 13, 34, 92} THEN 2
            ELSE IF cp < 32 \/ (cp >= 55296 /\ cp <= 57343) THEN 6
            ELSE IF cp < 128 THEN 1
            ELSE IF cp < 2048 THEN 2
            ELSE IF cp < 65536 THEN 3
            ELSE 4
        RECURSIVE Chars(_)
        Chars(t) == IF t = <<>> THEN 0 ELSE Char(Head(t)) + Chars(Tail(t))
    IN 2 + Chars(s)

\* The bytes of an object or array that JSON.stringify(data, null, 2) opens
\* at indentation d, given the bytes of its members (a member of an object
\* counting its key): "[]" when empty, and else the opening line, each
\* member on a line of its own at indentation d + 2, a comma after all but
\* the last, and the closing line.
Nest(d, members) ==
    LET RECURSIVE Sum(_)
        Sum(t) == IF t = <<>> THEN 0 ELSE Head(t) + Sum(Tail(t))
    IN IF members = <<>> THEN 2
       ELSE 2 + Sum(members) + Len(members) * (d + 2) + 2 * (Len(members) - 1)
              + 1 + d + 1

\* What the values the model abbreviates take in the file.
UuidLen  == 36     \* uuidv4()
HashLen  == 60     \* bcrypt.hash(password, 10)
IsoLen   == 24     \* new Date().toISOString()
IdDigits == 13     \* Date.now().toString()

\* The bytes writeJSON(file, list, { spaces: 2 }) writes:
\* JSON.stringify(list, null, 2) and a newline.
FileLen(f, list) ==
    LET Key(k, v) == Len(k) + 4 + v
        Str(t) == 2 + Len(t)
        RECURSIVE Digits(_)
        Digits(n) == IF n < 10 THEN 1 ELSE 1 + Digits(n \div 10)
        User(u) ==
            Nest(2, <<Key("id", 2 + UuidLen),
                      Key("username", JsonText(u.username)),
                      Key("name", JsonText(u.name)),
                      Key("email", JsonText(u.email)),
                      Key("phone", Str(u.phone)),
                      Key("password", 2 + HashLen),
                      Key("createdAt", 2 + IsoLen)>>)
        Service(sv) ==
            Nest(6, <<Key("name", JsonText(sv.name)),
                      Key("price", Digits(sv.price)),
                      Key("active", IF sv.active THEN 4 ELSE 5)>>)
        Block(p) ==
            Nest(2, <<Key("platform", JsonText(p.platform)),
                      Key("services",
                          Nest(4, [k \in DOMAIN p.services |-> Service(p.services[k])]))>>)
        Order(o) ==
            Nest(2, <<Key("id", 2 + IdDigits),
                      Key("userId", 2 + UuidLen),
                      Key("user",
                          Nest(4, <<Key("username", JsonText(o.user.username)),
                                    Key("name", JsonText(o.user.name)),
                                    Key("email", JsonText(o.user.email)),
                                    Key("phone", Str(o.user.phone))>>)),
                      Key("platform", JsonText(o.platform)),
                      Key("service", JsonText(o.service)),
                      Key("quantity", Digits(o.quantity)),
                      Key("price", Digits(o.price)),
                      Key("payment", Str(o.payment)),
                      Key("link", Str(o.link)),
                      Key("note", Str(o.note)),
                      Key("screenshot", 4),
                      Key("status", Str(o.status)),
                      Key("createdAt", 2 + IsoLen)>>)
        Item(x) == CASE f = "users" -> User(x)
                     [] f = "services" -> Block(x)
                     [] OTHER -> Order(x)
    IN Nest(0, [i \in DOMAIN list |-> Item(list[i])]) + 1

\* The list a file starts with: the last list written to it from its first
\* byte, <<>> for a file just created or just truncated.
Content(f) ==
    CASE f = "users" -> usersFile
      [] f = "services" -> servicesFile
      [] OTHER -> ordersFile

\* fs.readJSON(file) resolves: JSON.parse accepts the file's bytes, which are
\* the list's own and after them nothing but newlines.  An empty file, and
\* one where the end of a longer earlier write follows the list, make it
\* throw.
Parses(f) ==
    LET n == FileLen(f, Content(f))
    IN /\ fileBytes[f].size >= n
       /\ fileBytes[f].size - n < fileBytes[f].nl

\* The data of fs.writeFile lands in file f: the bytes of `list` are written
\* from offset 0 over what the file holds then.  Bytes of the file beyond
\* them stay: they are the end of an earlier write, "]" and newlines, and the
\* file still parses only if they are newlines alone.
Written(f, list) ==
    LET b == fileBytes[f]
        n == FileLen(f, list)
        after == IF b.size <= n THEN [size |-> n, nl |-> 1]
                 ELSE IF b.size - n <= b.nl
                 THEN [size |-> b.size, nl |-> 1 + (b.size - n)]
                 ELSE b
    IN /\ usersFile' = IF f = "users" THEN list ELSE usersFile
       /\ servicesFile' = IF f = "services" THEN list ELSE servicesFile
       /\ ordersFile' = IF f = "orders" THEN list ELSE ordersFile
       /\ fileBytes' = [fileBytes EXCEPT ![f] = after]

\* While the handler in slot h is suspended at `await readJSON`, the runtime
\* reads the file and parses it: the handler will resume with the list, or
\* with the rejection of JSON.parse.
FileRead(h) ==
    /\ FileAt(pc[h]).op = "read"
    /\ loc[h].io = "asked"
    /\ LET f == FileAt(pc[h]).file
       IN loc' = [loc EXCEPT ![h].io = IF Parses(f) THEN "done" ELSE "failed",
                             ![h].list = IF Parses(f) THEN Content(f) ELSE <<>>]
    /\ UNCHANGED <<gmailUser, usersFile, servicesFile, ordersFile, fileBytes,
                   sessions, clientSid, now, nextUuid, pc, res>>
    /\ PanelFrame

\* While the handler in slot h is suspended at `await writeJSON`, fs.writeFile
\* opens the file with flag 'w': the file is truncated to no bytes.
FileOpened(h) ==
    /\ FileAt(pc[h]).op = "write"
    /\ loc[h].io = "asked"
    /\ LET f == FileAt(pc[h]).file
       IN /\ usersFile' = IF f = "users" THEN <<>> ELSE usersFile
          /\ servicesFile' = IF f = "services" THEN <<>> ELSE servicesFile
          /\ ordersFile' = IF f = "orders" THEN <<>> ELSE ordersFile
          /\ fileBytes' = [fileBytes EXCEPT ![f] = [size |-> 0, nl |-> 0]]
    /\ loc' = [loc EXCEPT ![h].io = "open"]
    /\ UNCHANGED <<gmailUser, sessions, clientSid, now, nextUuid, pc, res>>
    /\ PanelFrame

\* A write that appended an order to the file's current content would lose
\* nothing.
FileWritten_appendToCurrent(h) ==
    /\ FileAt(pc[h]).op = "write"
    /\ loc[h].io = "open"
    /\ Written(FileAt(pc[h]).file,
               IF pc[h] = "order_write"
               THEN Append(ordersFile, loc[h].tmp[1])
               ELSE loc[h].list)
    /\ loc' = [loc EXCEPT ![h].io = "done"]
    /\ UNCHANGED <<gmailUser, sessions, clientSid, now, nextUuid, pc, res>>
    /\ PanelFrame

\* The data of the write lands: the list the handler passed to writeJSON,
\* serialized when it was passed.
FileWritten(h) ==
    /\ FileAt(pc[h]).op = "write"
    /\ loc[h].io = "open"
    /\ Written(FileAt(pc[h]).file, loc[h].list)
    /\ loc' = [loc EXCEPT ![h].io = "done"]
    /\ UNCHANGED <<gmailUser, sessions, clientSid, now, nextUuid, pc, res>>
    /\ PanelFrame

\* ---------------------------------------------------------------- signup
UsernameTaken_caseSensitive(list, username) ==
    \E i \in DOMAIN list : list[i].username = username

UsernameTaken(list, username) ==
    \E i \in DOMAIN list : toLowerCase(list[i].username) = toLowerCase(username)

EmailTaken(list, email) ==
    \E i \in DOMAIN list : toLowerCase(list[i].email) = toLowerCase(email)

SignupPcs == {"signup_read", "signup_hash", "signup_write"}
LoginPcs  == {"login_read", "login_cmp"}

\* The store can issue an id to a request from client c that may save a
\* session: the request comes with a stored session, or an id is left beside
\* those in-flight requests without one may yet take.
SidLeft(c) ==
    \/ ReqSid(c) # 0
    \/ Len(sessions)
          + Cardinality({k \in Handlers : pc[k] \in SignupPcs \cup LoginPcs
                                            /\ loc[k].sid = 0}) < MaxSids

\* POST /api/signup up to `await readJSON(USERS_FILE)`.  The model admits a
\* signup while MaxUsers exceeds the signups in flight plus the users of the
\* longest list held, in the file or by a request that read or is writing it
\* (a file being rewritten is empty for a while).
SignupStart(h, c, b) ==
    /\ pc[h] = "idle"
    /\ IF Falsy(b.username) \/ Falsy(b.name) \/ Falsy(b.email)
          \/ b.phone = "" \/ b.password = ""
       THEN /\ pc' = pc /\ loc' = loc
            /\ res' = Resp(400, <<>>)
       ELSE /\ LET Held(k) ==
                       IF pc[k] \in {"signup_read", "signup_hash", "login_read"}
                       THEN Len(loc[k].list)
                       ELSE IF pc[k] = "signup_write" THEN Len(loc[k].list) - 1
                       ELSE 0
               IN \A n \in {Len(usersFile)} \cup {Held(k) : k \in Handlers} :
                     n + InFlight(SignupPcs) < MaxUsers
            /\ SidLeft(c)
            /\ Await(h, "signup_read",
                     [IdleLoc EXCEPT !.client = c, !.sid = ReqSid(c),
                                     !.sess = ReqSession(c), !.body = b])
    /\ UNCHANGED <<gmailUser, usersFile, servicesFile, ordersFile, fileBytes,
                   sessions, clientSid, now, nextUuid>>
    /\ PanelFrame

\* The read resolves; the two uniqueness checks; up to `await bcrypt.hash`.
\* A rejected read is caught: 500 "Signup failed".
SignupRead(h) ==
    /\ pc[h] = "signup_read"
    /\ loc[h].io \in {"done", "failed"}
    /\ IF loc[h].io = "failed"
       THEN Finish(h, 500, <<>>)
       ELSE IF UsernameTaken(loc[h].list, loc[h].body.username)
               \/ EmailTaken(loc[h].list, loc[h].body.email)
       THEN Finish(h, 409, <<>>)
       ELSE Await(h, "signup_hash", loc[h])
    /\ UNCHANGED <<gmailUser, usersFile, servicesFile, ordersFile, fileBytes,
                   sessions, clientSid, now, nextUuid>>
    /\ PanelFrame

\* The hash resolves; the user is built and pushed; up to `await writeJSON`.
SignupHashed(h) ==
    /\ pc[h] = "signup_hash"
    /\ LET b == loc[h].body
           user == [id |-> nextUuid, username |-> b.username, name |-> b.name,
                    email |-> b.email, phone |-> b.phone,
                    password |-> bcryptHash(b.password)]
       IN Await(h, "signup_write",
                [loc[h] EXCEPT !.list = Append(@, user), !.tmp = <<user>>])
    /\ nextUuid' = nextUuid + 1
    /\ UNCHANGED <<gmailUser, usersFile, servicesFile, ordersFile, fileBytes,
                   sessions, clientSid, now>>
    /\ PanelFrame

\* The write has completed; the session is set and the response sent.
SignupWritten(h) ==
    /\ pc[h] = "signup_write"
    /\ loc[h].io = "done"
    /\ SaveSession(h, SessionUser(loc[h].tmp[1]))
    /\ Finish(h, 200, <<>>)
    /\ UNCHANGED <<gmailUser, usersFile, servicesFile, ordersFile, fileBytes,
                   now, nextUuid>>
    /\ PanelFrame

\* ----------------------------------------------------------------- login
\* POST /api/login up to `await readJSON(USERS_FILE)`.
LoginStart(h, c, b) ==
    /\ pc[h] = "idle"
    /\ SidLeft(c)
    /\ Await(h, "login_read",
             [IdleLoc EXCEPT !.client = c, !.sid = ReqSid(c),
                             !.sess = ReqSession(c), !.body = b])
    /\ UNCHANGED <<gmailUser, usersFile, servicesFile, ordersFile, fileBytes,
                   sessions, clientSid, now, nextUuid>>
    /\ PanelFrame

\* The read resolves; users.find; up to `await bcrypt.compare`.  With a user
\* stored, the find callback calls username.toLowerCase(): on an absent
\* username it throws and the catch answers 500 "Login failed", as it does
\* for a rejected read.
LoginRead(h) ==
    /\ pc[h] = "login_read"
    /\ loc[h].io \in {"done", "failed"}
    /\ LET stored == loc[h].list
           Match(u) == toLowerCase(u.username) = toLowerCase(loc[h].body.username)
           idx == FindIndex(stored, Match)
       IN IF loc[h].io = "failed"
          THEN Finish(h, 500, <<>>)
          ELSE IF stored # <<>> /\ loc[h].body.username = undefined
          THEN Finish(h, 500, <<>>)
          ELSE IF idx = 0
          THEN Finish(h, 400, <<>>)
          ELSE Await(h, "login_cmp",
                     [loc[h] EXCEPT !.tmp = <<stored[idx]>>, !.list = <<>>])
    /\ UNCHANGED <<gmailUser, usersFile, servicesFile, ordersFile, fileBytes,
                   sessions, clientSid, now, nextUuid>>
    /\ PanelFrame

\* The comparison resolves; req.session.user is assigned on the session the
\* request loaded.
LoginCompared(h) ==
    /\ pc[h] = "login_cmp"
    /\ LET user == loc[h].tmp[1]
       IN IF bcryptCompare(loc[h].body.password, user.password)
          THEN /\ SaveSession(h, SessionUser(user))
               /\ Finish(h, 200, <<>>)
          ELSE /\ UNCHANGED <<sessions, clientSid>>
               /\ Finish(h, 400, <<>>)
    /\ UNCHANGED <<gmailUser, usersFile, servicesFile, ordersFile, fileBytes,
                   now, nextUuid>>
    /\ PanelFrame

\* GET /api/me
Me(c) ==
    /\ Up
    /\ res' = Resp(200, <<>>)
    /\ UNCHANGED <<gmailUser, usersFile, servicesFile, ordersFile, fileBytes,
                   sessions, clientSid, now, nextUuid, pc, loc>>
    /\ PanelFrame

\* POST /api/logout: req.session.destroy deletes the request's session from
\* the store at once and defers its callback to a later turn of the event
\* loop.  The client's cookie is left as it is.
Logout(h, c) ==
    /\ pc[h] = "idle"
    /\ sessions' = IF ReqSid(c) = 0 THEN sessions
                   ELSE [sessions EXCEPT ![ReqSid(c)] = <<>>]
    /\ Await(h, "logout_cb", [IdleLoc EXCEPT !.client = c])
    /\ UNCHANGED <<gmailUser, usersFile, servicesFile, ordersFile, fileBytes,
                   clientSid, now, nextUuid>>
    /\ PanelFrame

\* The deferred callback of destroy runs: res.json({ ok: true }).
LogoutDestroyed(h) ==
    /\ pc[h] = "logout_cb"
    /\ Finish(h, 200, <<>>)
    /\ UNCHANGED <<gmailUser, usersFile, servicesFile, ordersFile, fileBytes,
                   sessions, clientSid, now, nextUuid>>
    /\ PanelFrame

\* -------------------------------------------------------------- services
LowerEq(a, b) == toLowerCase(a) = toLowerCase(b)

\* GET /api/services up to `await readJSON(SERVICES_FILE)`.
ServicesList(h, c) ==
    /\ pc[h] = "idle"
    /\ Await(h, "svclist_read",
             [IdleLoc EXCEPT !.client = c, !.sess = ReqSession(c)])
    /\ UNCHANGED <<gmailUser, usersFile, servicesFile, ordersFile, fileBytes,
                   sessions, clientSid, now, nextUuid>>
    /\ PanelFrame

\* The read resolves: the response is the file as read.  The handler has no
\* try block: a rejected read is an unhandled rejection.
ServicesListRead(h) ==
    /\ pc[h] = "svclist_read"
    /\ loc[h].io \in {"done", "failed"}
    /\ IF loc[h].io = "failed"
       THEN UnhandledRejection
       ELSE Finish(h, 200, <<>>) /\ UNCHANGED <<sessions, clientSid>>
    /\ UNCHANGED <<gmailUser, usersFile, servicesFile, ordersFile, fileBytes,
                   now, nextUuid>>
    /\ PanelFrame

\* The synchronous head shared by the admin routes: the middleware chain, then
\* either a rejection or the handler's first await.
AdminStart(h, c, b, bad, first) ==
    /\ pc[h] = "idle"
    /\ IF AdminGate(ReqSession(c)) # 0
       THEN /\ pc' = pc /\ loc' = loc
            /\ res' = Resp(AdminGate(ReqSession(c)), <<>>)
       ELSE IF bad
       THEN /\ pc' = pc /\ loc' = loc
            /\ res' = Resp(400, <<>>)
       ELSE Await(h, first,
                  [IdleLoc EXCEPT !.client = c, !.sess = ReqSession(c), !.body = b])
    /\ UNCHANGED <<gmailUser, usersFile, servicesFile, ordersFile, fileBytes,
                   sessions, clientSid, now, nextUuid>>
    /\ PanelFrame

\* The write of services.json has completed and the handler answers
\* { ok, services }.
ServicesWritten(h, at) ==
    /\ pc[h] = at
    /\ loc[h].io = "done"
    /\ Finish(h, 200, <<>>)
    /\ UNCHANGED <<gmailUser, usersFile, servicesFile, ordersFile, fileBytes,
                   sessions, clientSid, now, nextUuid>>
    /\ PanelFrame

\* POST /api/admin/services/add
AdminAddStart(h, c, b) ==
    AdminStart(h, c, b,
               Falsy(b.platform) \/ Falsy(b.name) \/ b.price = 0, "svcadd_read")

\* The handler has no try block: a rejected read is an unhandled rejection.
AdminAddRead(h) ==
    /\ pc[h] = "svcadd_read"
    /\ loc[h].io \in {"done", "failed"}
    /\ LET b   == loc[h].body
           services == loc[h].list
           IsP(p) == LowerEq(p.platform, b.platform)
           idx == FindIndex(services, IsP)
           s1  == IF idx = 0
                  THEN Append(services, [platform |-> b.platform, services |-> <<>>])
                  ELSE services
           i1  == IF idx = 0 THEN Len(s1) ELSE idx
       IN IF loc[h].io = "failed"
          THEN UnhandledRejection
          ELSE IF \E k \in DOMAIN s1[i1].services :
                     LowerEq(s1[i1].services[k].name, b.name)
          THEN Finish(h, 409, <<>>) /\ UNCHANGED <<sessions, clientSid>>
          ELSE /\ Await(h, "svcadd_write",
                        [loc[h] EXCEPT !.list =
                           [s1 EXCEPT ![i1].services =
                               Append(@, [name |-> b.name, price |-> b.price,
                                          active |-> TRUE])]])
               /\ UNCHANGED <<sessions, clientSid>>
    /\ UNCHANGED <<gmailUser, usersFile, servicesFile, ordersFile, fileBytes,
                   now, nextUuid>>
    /\ PanelFrame

AdminAddWritten(h) == ServicesWritten(h, "svcadd_write")

\* POST /api/admin/services/delete.  The handler has no try block: a
\* toLowerCase() on an absent platform (in findIndex) or name (in filter)
\* throws once there is an element to test.
AdminDeleteStart(h, c, b) ==
    AdminStart(h, c, b, FALSE, "svcdel_read")

AdminDeleteRead(h) ==
    /\ pc[h] = "svcdel_read"
    /\ loc[h].io \in {"done", "failed"}
    /\ LET b   == loc[h].body
           IsP(p) == LowerEq(p.platform, b.platform)
           Other(s) == ~LowerEq(s.name, b.name)
           services == loc[h].list
           pIdx == FindIndex(services, IsP)
       IN IF loc[h].io = "failed"
          THEN UnhandledRejection
          ELSE IF services # <<>> /\ b.platform = undefined
          THEN UnhandledRejection
          ELSE IF pIdx = 0
          THEN Finish(h, 404, <<>>) /\ UNCHANGED <<sessions, clientSid>>
          ELSE IF services[pIdx].services # <<>> /\ b.name = undefined
          THEN UnhandledRejection
          ELSE /\ Await(h, "svcdel_write",
                        [loc[h] EXCEPT !.list =
                           [services EXCEPT ![pIdx].services = SelectSeq(@, Other)]])
               /\ UNCHANGED <<sessions, clientSid>>
    /\ UNCHANGED <<gmailUser, usersFile, servicesFile, ordersFile, fileBytes,
                   now, nextUuid>>
    /\ PanelFrame

AdminDeleteWritten(h) == ServicesWritten(h, "svcdel_write")

\* POST /api/admin/services/toggle, without a try block like delete.
AdminToggleStart(h, c, b) ==
    AdminStart(h, c, b, FALSE, "svctog_read")

AdminToggleRead(h) ==
    /\ pc[h] = "svctog_read"
    /\ loc[h].io \in {"done", "failed"}
    /\ LET b   == loc[h].body
           IsP(p) == LowerEq(p.platform, b.platform)
           IsS(s) == LowerEq(s.name, b.name)
           services == loc[h].list
           pIdx == FindIndex(services, IsP)
           sIdx == IF pIdx = 0 THEN 0 ELSE FindIndex(services[pIdx].services, IsS)
       IN IF loc[h].io = "failed"
          THEN UnhandledRejection
          ELSE IF services # <<>> /\ b.platform = undefined
          THEN UnhandledRejection
          ELSE IF pIdx = 0
          THEN Finish(h, 404, <<>>) /\ UNCHANGED <<sessions, clientSid>>
          ELSE IF services[pIdx].services # <<>> /\ b.name = undefined
          THEN UnhandledRejection
          ELSE IF sIdx = 0
          THEN Finish(h, 404, <<>>) /\ UNCHANGED <<sessions, clientSid>>
          ELSE /\ Await(h, "svctog_write",
                        [loc[h] EXCEPT !.list =
                           [services EXCEPT ![pIdx].services[sIdx].active = b.active]])
               /\ UNCHANGED <<sessions, clientSid>>
    /\ UNCHANGED <<gmailUser, usersFile, servicesFile, ordersFile, fileBytes,
                   now, nextUuid>>
    /\ PanelFrame

AdminToggleWritten(h) == ServicesWritten(h, "svctog_write")

\* ---------------------------------------------------------------- orders
OrderPcs == {"order_svc", "order_read", "order_write", "order_mail"}

\* const qty = Math.max(1, Number(quantity || 1))
OrderQty(quantity) == IF quantity > 1 THEN quantity ELSE 1

\* const price = Math.round(sv.price * qty * 100) / 100, on whole prices
OrderPrice(sv, qty) == sv.price * qty

\* The order object of POST /api/order.  The id is one clock reading and
\* createdAt a later one; ids are numbers here, ordered as their
\* equal-length decimal strings are.
BuildOrder(sess, b, qty, price, clock, later) ==
    [id |-> clock, userId |-> sess[1].id,
     user |-> [username |-> sess[1].username, name |-> sess[1].name,
               email |-> sess[1].email, phone |-> sess[1].phone],
     platform |-> b.platform, service |-> b.service, quantity |-> qty,
     price |-> price, payment |-> b.payment, link |-> b.link, note |-> b.note,
     screenshot |-> <<>>, status |-> "in progress", createdAt |-> later]

\* POST /api/order up to `await readJSON(SERVICES_FILE)`.  The model admits a
\* placement while MaxOrders exceeds the placements in flight plus the orders
\* of the longest list held, in the file or by a request that read or is
\* writing it.
OrderStart(h, c, b) ==
    /\ pc[h] = "idle"
    /\ IF authRequired(ReqSession(c)) # 0
       THEN /\ pc' = pc /\ loc' = loc
            /\ res' = Resp(401, <<>>)
       ELSE IF Falsy(b.platform) \/ Falsy(b.service) \/ b.quantity = 0
               \/ b.link = "" \/ b.payment = ""
       THEN /\ pc' = pc /\ loc' = loc
            /\ res' = Resp(400, <<>>)
       ELSE /\ LET Held(k) ==
                       IF pc[k] \in {"order_read", "admlist_read", "admstat_read",
                                     "admstat_write"}
                       THEN Len(loc[k].list)
                       ELSE IF pc[k] \in {"order_write", "order_mail"}
                       THEN Len(loc[k].list) - 1
                       ELSE 0
               IN \A n \in {Len(ordersFile)} \cup {Held(k) : k \in Handlers} :
                     n + InFlight(OrderPcs) < MaxOrders
            /\ Await(h, "order_svc",
                     [IdleLoc EXCEPT !.client = c, !.sess = ReqSession(c), !.body = b])
    /\ UNCHANGED <<gmailUser, usersFile, servicesFile, ordersFile, fileBytes,
                   sessions, clientSid, now, nextUuid>>
    /\ PanelFrame

\* A lookup by name alone would accept an order for an inactive service.
OrderServicesRead_anyState(h) ==
    /\ pc[h] = "order_svc"
    /\ loc[h].io \in {"done", "failed"}
    /\ LET b   == loc[h].body
           services == loc[h].list
           IsP(p) == LowerEq(p.platform, b.platform)
           IsS(s) == LowerEq(s.name, b.service)
           pIdx == FindIndex(services, IsP)
           sIdx == IF pIdx = 0 THEN 0 ELSE FindIndex(services[pIdx].services, IsS)
       IN IF loc[h].io = "failed"
          THEN Finish(h, 500, <<>>)
          ELSE IF sIdx = 0
          THEN Finish(h, 400, <<>>)
          ELSE Await(h, "order_read",
                     [loc[h] EXCEPT !.tmp = <<services[pIdx].services[sIdx]>>,
                                    !.list = <<>>])
    /\ UNCHANGED <<gmailUser, usersFile, servicesFile, ordersFile, fileBytes,
                   sessions, clientSid, now, nextUuid>>
    /\ PanelFrame

\* The services read resolves; the service must exist and be active.  A
\* rejected read is caught: 500 "Order failed".
OrderServicesRead(h) ==
    /\ pc[h] = "order_svc"
    /\ loc[h].io \in {"done", "failed"}
    /\ LET b   == loc[h].body
           services == loc[h].list
           IsP(p) == LowerEq(p.platform, b.platform)
           IsS(s) == LowerEq(s.name, b.service) /\ s.active
           pIdx == FindIndex(services, IsP)
           sIdx == IF pIdx = 0 THEN 0 ELSE FindIndex(services[pIdx].services, IsS)
       IN IF loc[h].io = "failed"
          THEN Finish(h, 500, <<>>)
          ELSE IF sIdx = 0
          THEN Finish(h, 400, <<>>)
          ELSE Await(h, "order_read",
                     [loc[h] EXCEPT !.tmp = <<services[pIdx].services[sIdx]>>,
                                    !.list = <<>>])
    /\ UNCHANGED <<gmailUser, usersFile, servicesFile, ordersFile, fileBytes,
                   sessions, clientSid, now, nextUuid>>
    /\ PanelFrame

\* The orders read resolves; the order is built, reading the clock for the
\* id and again for createdAt, and pushed; up to
\* `await writeJSON(ORDERS_FILE, orders)`.  A rejected read is caught: 500
\* "Order failed", and no order is built.
OrderOrdersRead(h) ==
    /\ pc[h] = "order_read"
    /\ loc[h].io \in {"done", "failed"}
    /\ IF loc[h].io = "failed"
       THEN Finish(h, 500, <<>>) /\ now' = now
       ELSE \E later \in now..MaxClock :
               /\ LET qty   == OrderQty(loc[h].body.quantity)
                      price == OrderPrice(loc[h].tmp[1], qty)
                      order == BuildOrder(loc[h].sess, loc[h].body, qty, price, now,
                                          later)
                  IN Await(h, "order_write",
                           [loc[h] EXCEPT !.list = Append(@, order),
                                          !.tmp = <<order>>])
               /\ now' = later
    /\ UNCHANGED <<gmailUser, usersFile, servicesFile, ordersFile, fileBytes,
                   sessions, clientSid, nextUuid>>
    /\ PanelFrame

\* A handler that went on to the mail without awaiting its write would reach
\* the mail with nothing recorded.
OrderWritten_mailFirst(h) ==
    /\ pc[h] = "order_write"
    /\ Await(h, "order_mail", loc[h])
    /\ UNCHANGED <<gmailUser, usersFile, servicesFile, ordersFile, fileBytes,
                   sessions, clientSid, now, nextUuid>>
    /\ PanelFrame

\* The write has completed; up to `await transporter.sendMail`.
OrderWritten(h) ==
    /\ pc[h] = "order_write"
    /\ loc[h].io = "done"
    /\ Await(h, "order_mail", loc[h])
    /\ UNCHANGED <<gmailUser, usersFile, servicesFile, ordersFile, fileBytes,
                   sessions, clientSid, now, nextUuid>>
    /\ PanelFrame

\* sendMail resolves (200) or rejects (the catch block answers 500).
OrderMailed(h, sent) ==
    /\ pc[h] = "order_mail"
    /\ IF sent
       THEN Finish(h, 200, <<>>)
       ELSE Finish(h, 500, <<>>)
    /\ UNCHANGED <<gmailUser, usersFile, servicesFile, ordersFile, fileBytes,
                   sessions, clientSid, now, nextUuid>>
    /\ PanelFrame

\* orders.sort((a, b) => b.id.localeCompare(a.id)): stable, descending by id.
RECURSIVE InsertById(_, _)
InsertById(sorted, o) ==
    IF sorted = <<>> THEN <<o>>
    ELSE IF Head(sorted).id >= o.id THEN <<Head(sorted)>> \o InsertById(Tail(sorted), o)
    ELSE <<o>> \o sorted

RECURSIVE SortOrders(_)
SortOrders(orders) ==
    IF orders = <<>> THEN <<>>
    ELSE InsertById(SortOrders(SubSeq(orders, 1, Len(orders) - 1)), orders[Len(orders)])

\* GET /api/admin/orders
AdminOrdersStart(h, c) ==
    AdminStart(h, c, [none |-> TRUE], FALSE, "admlist_read")

\* The handler has no try block: a rejected read is an unhandled rejection.
AdminOrdersRead(h) ==
    /\ pc[h] = "admlist_read"
    /\ loc[h].io \in {"done", "failed"}
    /\ IF loc[h].io = "failed"
       THEN UnhandledRejection
       ELSE Finish(h, 200, SortOrders(loc[h].list)) /\ UNCHANGED <<sessions, clientSid>>
    /\ UNCHANGED <<gmailUser, usersFile, servicesFile, ordersFile, fileBytes,
                   now, nextUuid>>
    /\ PanelFrame

\* A slip that set the status without testing the id would change every
\* order.
SetStatus_all(orders, idx, status) ==
    [i \in DOMAIN orders |-> [orders[i] EXCEPT !.status = status]]

\* orders[idx].status = status

SetStatus(orders, idx, status) == [orders EXCEPT ![idx].status = status]

\* POST /api/admin/orders/status
AdminStatusStart(h, c, b) ==
    AdminStart(h, c, b, FALSE, "admstat_read")

\* The read resolves; findIndex by id; the status is set; up to
\* `await writeJSON(ORDERS_FILE, orders)`.  The handler has no try block: a
\* rejected read is an unhandled rejection.
AdminStatusRead(h) ==
    /\ pc[h] = "admstat_read"
    /\ loc[h].io \in {"done", "failed"}
    /\ LET orders == loc[h].list
           IsO(o) == o.id = loc[h].body.id
           idx == FindIndex(orders, IsO)
       IN IF loc[h].io = "failed"
          THEN UnhandledRejection
          ELSE IF idx = 0
          THEN Finish(h, 404, <<>>) /\ UNCHANGED <<sessions, clientSid>>
          ELSE /\ Await(h, "admstat_write",
                        [loc[h] EXCEPT !.list = SetStatus(orders, idx, loc[h].body.status)])
               /\ UNCHANGED <<sessions, clientSid>>
    /\ UNCHANGED <<gmailUser, usersFile, servicesFile, ordersFile, fileBytes,
                   now, nextUuid>>
    /\ PanelFrame

\* The write has completed and the handler answers { ok: true }.
AdminStatusWritten(h) ==
    /\ pc[h] = "admstat_write"
    /\ loc[h].io = "done"
    /\ Finish(h, 200, <<>>)
    /\ UNCHANGED <<gmailUser, usersFile, servicesFile, ordersFile, fileBytes,
                   sessions, clientSid, now, nextUuid>>
    /\ PanelFrame

\* The clock advances.
Tick ==
    /\ now < MaxClock
    /\ now' = now + 1
    /\ UNCHANGED <<panelVars, nextUuid, slVars, chatVars>>


(***************************************************************************)
(* SERVERLESS ORDER HANDLER  (src/unnamed/part_001)                        *)
(***************************************************************************)
SlOrderBodies ==
    [platform : {"ig"}, service : {"f"}, username : {"a"}, amount : {0, 3},
     paymentMethod : {"EasyPaisa"}, proof : {"data:image"}]

SlResp(status, data) == [status |-> status, data |-> data]

\* The handler up to `await sendMail`: readJSON, push and writeJSON are
\* synchronous, so the order is in the file when the handler suspends.
SlOrderStart(method, b) ==
    /\ slPc = "idle"
    /\ IF method # "POST"
       THEN /\ slRes' = SlResp(405, <<>>)
            /\ UNCHANGED <<slOrders, slPc, slOrder, nextUuid, slServices>>
       ELSE IF b.platform = "" \/ b.service = "" \/ b.username = "" \/ b.amount = 0
               \/ b.paymentMethod = "" \/ b.proof = ""
       THEN /\ slRes' = SlResp(400, <<>>)
            /\ UNCHANGED <<slOrders, slPc, slOrder, nextUuid, slServices>>
       ELSE /\ Len(slOrders) < MaxOrders
            /\ LET order == [id |-> nextUuid, platform |-> b.platform,
                             service |-> b.service, username |-> b.username,
                             amount |-> b.amount, paymentMethod |-> b.paymentMethod,
                             proof |-> b.proof, status |-> "Pending",
                             createdAt |-> now]
               IN /\ slOrders' = Append(slOrders, order)
                  /\ slOrder' = <<order>>
            /\ nextUuid' = nextUuid + 1
            /\ slPc' = "mail"
            /\ UNCHANGED <<slRes, slServices>>
    /\ UNCHANGED <<panelVars, now, chatVars>>

\* sendMail resolves, or rejects and the catch logs it: the answer is the same.
SlOrderMailed(sent) ==
    /\ slPc = "mail"
    /\ slRes' = SlResp(200, slOrder)
    /\ slPc' = "idle"
    /\ slOrder' = <<>>
    /\ UNCHANGED <<slOrders, slServices, panelVars, now, nextUuid, chatVars>>

\* ------------------------------------------------- serverless services
\* The request's uid cookie (<<>> when the caller sends none) and body.  The
\* serverless variant compares text as it is, so its text is opaque.
SlCookies == {<<>>, <<"u1">>}
SlServiceBodies == [platform : {"ig", "IG"}, name : {"f", "g"}, price : {5}]

\* The number of services in all platform blocks.
RECURSIVE SlCount(_)
SlCount(list) ==
    IF list = <<>> THEN 0 ELSE Len(Head(list).services) + SlCount(Tail(list))

\* services.find((s) => s.platform === platform), 0 if none.
SlFindPlatform(list, platform) ==
    IF \E i \in DOMAIN list : list[i].platform = platform
    THEN CHOOSE i \in DOMAIN list :
            /\ list[i].platform = platform
            /\ \A j \in 1..(i - 1) : list[j].platform # platform
    ELSE 0

\* POST: the platform block is found or pushed, the service is pushed onto it.
SlServicesPost(list, cookie, b) ==
    LET withBlock == IF SlFindPlatform(list, b.platform) = 0
                     THEN Append(list, [platform |-> b.platform, services |-> <<>>])
                     ELSE list
        idx == SlFindPlatform(withBlock, b.platform)
    IN [withBlock EXCEPT ![idx].services =
           Append(@, [name |-> b.name, price |-> b.price, active |-> TRUE])]

\* DELETE: the services named b.name are filtered out of the platform block.
SlServicesDelete(list, cookie, b) ==
    LET idx == SlFindPlatform(list, b.platform)
        Keep(x) == x.name # b.name
    IN IF idx = 0 THEN list
       ELSE [list EXCEPT ![idx].services = SelectSeq(@, Keep)]

\* The services handler: GET, POST, DELETE, 405 for the rest.  It reads
\* neither the cookie nor any other part of the caller's identity.
SlServices(method, cookie, b) ==
    /\ IF method = "GET"
       THEN /\ slRes' = SlResp(200, slServices)
            /\ UNCHANGED slServices
       ELSE IF method = "POST"
       THEN /\ SlCount(slServices) < MaxServices
            /\ slServices' = SlServicesPost(slServices, cookie, b)
            /\ slRes' = SlResp(200, slServices')
       ELSE IF method = "DELETE"
       THEN /\ slServices' = SlServicesDelete(slServices, cookie, b)
            /\ slRes' = SlResp(200, slServices')
       ELSE /\ slRes' = SlResp(405, <<>>)
            /\ UNCHANGED slServices
    /\ UNCHANGED <<slOrders, slPc, slOrder, panelVars, now, nextUuid, chatVars>>

(***************************************************************************)
(* CHAT SERVER  (src/server.js)                                            *)
(*                                                                         *)
(* A user id "HX-" + n is the number n; -1 stands for an id that does not  *)
(* match /^HX-\d{9}$/.  Requests suspend at their awaits (bcrypt.hash,     *)
(* bcrypt.compare), up to NumHandlers of them at once; the synchronous     *)
(* routes and the socket events run between their steps.                   *)
(***************************************************************************)
HexaMin  == 100000000     \* Math.floor(100000000 + Math.random() * 900000000)
HexaSpan == 900000000
MinPasswordLength == 6

\* The values generateHexaId() returns in the model: the first two of its
\* HexaSpan possible values.
UserIds == {HexaMin, HexaMin + 1}
Sockets == {1, 2}

generateHexaId(r) == HexaMin + r

\* /^HX-\d{9}$/.test(id)
WellFormedId(id) == id >= 0 /\ id < HexaMin + HexaSpan

\* The white space and line terminators String.prototype.trim removes.
IsSpace(ch) ==
    \/ ch \in {9, 10, 11, 12, 13, 32, 160, 5760, 8232, 8233, 8239, 8287, 12288, 65279}
    \/ ch >= 8192 /\ ch <= 8202

\* String.prototype.trim
RECURSIVE trimStart(_)
trimStart(s) == IF s # <<>> /\ IsSpace(Head(s)) THEN trimStart(Tail(s)) ELSE s

RECURSIVE trimEnd(_)
trimEnd(s) ==
    IF s # <<>> /\ IsSpace(s[Len(s)]) THEN trimEnd(SubSeq(s, 1, Len(s) - 1)) ELSE s

trim(s) == trimEnd(trimStart(s))

ChatSignupBodies ==
    [firstName : {"", "Al"}, lastName : {"B"}, password : {"secret", "short"}]
ChatLoginBodies  == [id : UserIds \cup {-1}, password : {"", "secret", "wrong1"}]
UpdateBodies ==
    [firstName : {"", "Zed"}, lastName : {""}, bio : {""}, phone : {""},
     email : {""}, avatar : {""}, password : {"", "short", "secret2"}]
MessageTexts == {<<>>, <<32>>, <<32, 104, 105>>}       \* "", " ", " hi"

ChatIdle == [id |-> 0, body |-> [none |-> TRUE], detached |-> FALSE]

\* userSockets[userId], 0 when there is no entry.
getUserSocket(userId) ==
    IF \E i \in DOMAIN userSockets : userSockets[i].userId = userId
    THEN (CHOOSE e \in Range(userSockets) : e.userId = userId).socket
    ELSE 0

\* A notification sent to every registered socket instead of the targets'.
EmitTo_broadcast(targets, event, about) ==
    {[to |-> e.socket, event |-> event, user |-> about] : e \in Range(userSockets)}

\* The events one handler run emits towards the sockets of `targets`.
EmitTo(targets, event, about) ==
    {[to |-> getUserSocket(t), event |-> event, user |-> about] :
        t \in {x \in targets : getUserSocket(x) # 0}}

\* chats[u][c], with an undefined list read as empty.
ChatList(u, c) == IF chats[u][c] = <<>> THEN <<>> ELSE chats[u][c][1]

\* The number of message copies held in all lists.
StoredCopies ==
    LET pairs == UserIds \X UserIds
        RECURSIVE Sum(_)
        Sum(S) == IF S = {} THEN 0
                  ELSE LET p == CHOOSE q \in S : TRUE
                       IN Len(ChatList(p[1], p[2])) + Sum(S \ {p})
    IN Sum(pairs)

ChatFrame == UNCHANGED <<panelVars, nextUuid, slVars>>

\* The chat handler in slot h suspends at the await named p with locals l.
ChatAwait(h, p, l) ==
    /\ cpc' = [cpc EXCEPT ![h] = p]
    /\ cloc' = [cloc EXCEPT ![h] = l]

\* The chat handler in slot h ends.
ChatDone(h) ==
    /\ cpc' = [cpc EXCEPT ![h] = "idle"]
    /\ cloc' = [cloc EXCEPT ![h] = ChatIdle]

\* ---------------------------------------------------------------- signup
\* POST /api/signup up to `await bcrypt.hash`; r is the draw of Math.random.
ChatSignupStart(h, r, b) ==
    /\ cpc[h] = "idle"
    /\ IF b.firstName = "" \/ b.lastName = "" \/ b.password = ""
          \/ Len(b.password) < MinPasswordLength
       THEN /\ cres' = 400
            /\ UNCHANGED <<cpc, cloc>>
       ELSE /\ ChatAwait(h, "signup_hash",
                         [id |-> generateHexaId(r), body |-> b, detached |-> FALSE])
            /\ UNCHANGED cres
    /\ emitted' = {}
    /\ UNCHANGED <<users, contacts, chats, statuses, calls, userSockets, sock,
                   now>>
    /\ ChatFrame

\* The hash resolves: users[id] and the four per-user stores are assigned.
\* A login or profile update suspended on the same id holds the object that
\* users[id] named before: from now on it is detached from the store.
ChatSignupHashed(h) ==
    /\ cpc[h] = "signup_hash"
    /\ LET id == cloc[h].id
           b  == cloc[h].body
       IN /\ users' = [users EXCEPT ![id] =
                <<[id |-> id, firstName |-> b.firstName, lastName |-> b.lastName,
                   password |-> bcryptHash(b.password),
                   bio |-> "Hey there! I'm using Hexachats.",
                   avatar |-> "https://ui-avatars.com/api/?name=" \o b.firstName
                                 \o "+" \o b.lastName \o "&background=random",
                   phone |-> "", email |-> "",
                   settings |-> [theme |-> "light", online |-> TRUE,
                                 lastSeen |-> now]]>>]
          /\ contacts' = [contacts EXCEPT ![id] = <<>>]
          /\ chats' = [chats EXCEPT ![id] = [c \in UserIds |-> <<>>]]
          /\ statuses' = [statuses EXCEPT ![id] = <<>>]
          /\ calls' = [calls EXCEPT ![id] = <<>>]
          /\ cloc' = [k \in Handlers |->
                         IF k = h THEN ChatIdle
                         ELSE IF cpc[k] \in {"login_cmp", "update_hash"}
                                 /\ cloc[k].id = id
                         THEN [cloc[k] EXCEPT !.detached = TRUE]
                         ELSE cloc[k]]
    /\ cpc' = [cpc EXCEPT ![h] = "idle"]
    /\ cres' = 201 /\ emitted' = {}
    /\ UNCHANGED <<userSockets, sock, now>>
    /\ ChatFrame

\* ----------------------------------------------------------------- login
\* POST /api/login up to `await bcrypt.compare`; `user` is users[id] as it
\* is now.
ChatLoginStart(h, b) ==
    /\ cpc[h] = "idle"
    /\ IF b.password = "" THEN cres' = 400 /\ UNCHANGED <<cpc, cloc>>
       ELSE IF ~WellFormedId(b.id) THEN cres' = 400 /\ UNCHANGED <<cpc, cloc>>
       ELSE IF b.id \notin UserIds \/ users[b.id] = <<>>
       THEN cres' = 404 /\ UNCHANGED <<cpc, cloc>>
       ELSE /\ ChatAwait(h, "login_cmp",
                   [id |-> b.id,
                    body |-> [ok |-> bcryptCompare(b.password, users[b.id][1].password)],
                    detached |-> FALSE])
            /\ UNCHANGED cres
    /\ emitted' = {}
    /\ UNCHANGED <<users, contacts, chats, statuses, calls, userSockets, sock,
                   now>>
    /\ ChatFrame

\* The comparison resolves: user.settings is written, on the object the
\* handler holds.
ChatLoginCompared(h) ==
    /\ cpc[h] = "login_cmp"
    /\ IF cloc[h].body.ok
       THEN /\ IF cloc[h].detached
               THEN UNCHANGED users
               ELSE users' = [users EXCEPT ![cloc[h].id][1].settings =
                                 [@ EXCEPT !.online = TRUE, !.lastSeen = now]]
            /\ cres' = 200
       ELSE /\ UNCHANGED users
            /\ cres' = 401
    /\ ChatDone(h) /\ emitted' = {}
    /\ UNCHANGED <<contacts, chats, statuses, calls, userSockets, sock, now>>
    /\ ChatFrame

\* -------------------------------------------------------- profile update
\* if (value) users[userId].field = value, for the six plain fields
ApplyProfile(u, b) ==
    [u EXCEPT !.firstName = IF b.firstName # "" THEN b.firstName ELSE @,
              !.lastName  = IF b.lastName # "" THEN b.lastName ELSE @,
              !.bio       = IF b.bio # "" THEN b.bio ELSE @,
              !.phone     = IF b.phone # "" THEN b.phone ELSE @,
              !.email     = IF b.email # "" THEN b.email ELSE @,
              !.avatar    = IF b.avatar # "" THEN b.avatar ELSE @]

\* PUT /api/user/:id up to its answer or `await bcrypt.hash`.  The plain
\* fields are assigned before the password is looked at.  In
\* `users[userId].password = await ...` the object users[userId] is taken
\* before the await.
UpdateStart(h, id, b) ==
    /\ cpc[h] = "idle"
    /\ IF users[id] = <<>>
       THEN /\ cres' = 404
            /\ UNCHANGED <<users, cpc, cloc>>
       ELSE /\ users' = [users EXCEPT ![id][1] = ApplyProfile(@, b)]
            /\ IF b.password = ""
               THEN cres' = 200 /\ UNCHANGED <<cpc, cloc>>
               ELSE IF Len(b.password) < MinPasswordLength
               THEN cres' = 400 /\ UNCHANGED <<cpc, cloc>>
               ELSE /\ ChatAwait(h, "update_hash",
                                 [id |-> id, body |-> b, detached |-> FALSE])
                    /\ UNCHANGED cres
    /\ emitted' = {}
    /\ UNCHANGED <<contacts, chats, statuses, calls, userSockets, sock, now>>
    /\ ChatFrame

\* The hash resolves: the password is assigned, on the object the handler
\* holds.
UpdateHashed(h) ==
    /\ cpc[h] = "update_hash"
    /\ IF cloc[h].detached
       THEN UNCHANGED users
       ELSE users' = [users EXCEPT
                        ![cloc[h].id][1].password = bcryptHash(cloc[h].body.password)]
    /\ ChatDone(h) /\ cres' = 200 /\ emitted' = {}
    /\ UNCHANGED <<contacts, chats, statuses, calls, userSockets, sock, now>>
    /\ ChatFrame

\* ------------------------------------------------------------------ reads
\* GET /api/user/:id
GetUser(id) ==
    /\ cres' = IF users[id] = <<>> THEN 404 ELSE 200
    /\ emitted' = {}
    /\ UNCHANGED <<users, contacts, chats, statuses, calls, userSockets, sock,
                   cpc, cloc, now>>
    /\ ChatFrame

\* GET /api/user/:userId/contacts
GetContacts(userId) == GetUser(userId)

\* GET /api/user/:userId/chats/:contactId
GetChat(userId, contactId) ==
    /\ cres' = IF users[userId] = <<>> \/ users[contactId] = <<>> THEN 404 ELSE 200
    /\ emitted' = {}
    /\ UNCHANGED <<users, contacts, chats, statuses, calls, userSockets, sock,
                   cpc, cloc, now>>
    /\ ChatFrame

\* GET /api/user/:userId/status
GetStatuses(userId) == GetUser(userId)

\* GET /api/user/:userId/calls
GetCalls(userId) == GetUser(userId)

\* -------------------------------------------------------------- contacts
\* POST /api/user/:userId/contacts
AddContact(userId, contactId) ==
    /\ IF users[userId] = <<>> \/ users[contactId] = <<>>
       THEN cres' = 404 /\ UNCHANGED <<contacts, chats>>
       ELSE IF userId = contactId
       THEN cres' = 400 /\ UNCHANGED <<contacts, chats>>
       ELSE IF contactId \in Range(contacts[userId])
       THEN cres' = 400 /\ UNCHANGED <<contacts, chats>>
       ELSE /\ contacts' = [contacts EXCEPT ![userId] = Append(@, contactId)]
            /\ chats' = [chats EXCEPT ![userId][contactId] =
                            IF @ = <<>> THEN <<(<<>>)>> ELSE @]
            /\ cres' = 200
    /\ emitted' = {}
    /\ UNCHANGED <<users, statuses, calls, userSockets, sock, cpc, cloc, now>>
    /\ ChatFrame

\* ----------------------------------------------------------------- chats
\* A send that replaced the list instead of pushing onto it.
PushMessage_replace(list, m) == <<m>>

\* chats[a][b].push(m)
PushMessage(list, m) == Append(list, m)

\* The two pushes of a send, the second seeing the first.
StoreMessage(ch, userId, contactId, m) ==
    LET c1 == [ch EXCEPT ![userId][contactId] =
                  <<PushMessage(IF @ = <<>> THEN <<>> ELSE @[1], m)>>]
    IN [c1 EXCEPT ![contactId][userId] =
           <<PushMessage(IF @ = <<>> THEN <<>> ELSE @[1], [m EXCEPT !.read = FALSE])>>]

\* POST /api/user/:userId/chats/:contactId
SendMessage(userId, contactId, text) ==
    /\ IF users[userId] = <<>> \/ users[contactId] = <<>>
       THEN cres' = 404 /\ emitted' = {} /\ UNCHANGED chats
       ELSE IF text = <<>> \/ trim(text) = <<>>
       THEN cres' = 400 /\ emitted' = {} /\ UNCHANGED chats
       ELSE /\ StoredCopies + 2 <= 2 * MaxMsgs
            /\ chats' = StoreMessage(chats, userId, contactId,
                            [sender |-> userId, message |-> trim(text),
                             timestamp |-> now, read |-> FALSE])
            /\ emitted' = EmitTo({contactId}, "newMessage", userId)
            /\ cres' = 200
    /\ UNCHANGED <<users, contacts, statuses, calls, userSockets, sock, cpc,
                   cloc, now>>
    /\ ChatFrame

\* msg => { if (msg.sender === contactId && !msg.read) msg.read = true }
MarkList(list, contactId) ==
    [i \in DOMAIN list |->
        IF list[i].sender = contactId /\ ~list[i].read
        THEN [list[i] EXCEPT !.read = TRUE] ELSE list[i]]

\* PUT /api/user/:userId/chats/:contactId/read
MarkRead(userId, contactId) ==
    /\ IF users[userId] = <<>> \/ users[contactId] = <<>>
       THEN cres' = 404 /\ UNCHANGED chats
       ELSE /\ chats' = [chats EXCEPT ![userId][contactId] =
                            IF @ = <<>> THEN @ ELSE <<MarkList(@[1], contactId)>>]
            /\ cres' = 200
    /\ emitted' = {}
    /\ UNCHANGED <<users, contacts, statuses, calls, userSockets, sock, cpc,
                   cloc, now>>
    /\ ChatFrame

\* ------------------------------------------------------ statuses, calls
\* POST /api/user/:userId/status
AddStatus(userId, media) ==
    /\ IF users[userId] = <<>>
       THEN cres' = 404 /\ emitted' = {} /\ UNCHANGED statuses
       ELSE IF media = ""
       THEN cres' = 400 /\ emitted' = {} /\ UNCHANGED statuses
       ELSE /\ Len(statuses[userId]) < MaxLog
            /\ statuses' = [statuses EXCEPT ![userId] =
                               Append(@, [media |-> media, caption |-> "",
                                          type |-> "image", timestamp |-> now])]
            /\ emitted' = EmitTo(Range(contacts[userId]), "newStatus", userId)
            /\ cres' = 200
    /\ UNCHANGED <<users, contacts, chats, calls, userSockets, sock, cpc, cloc,
                   now>>
    /\ ChatFrame

\* POST /api/user/:userId/calls
AddCall(userId, contactId) ==
    /\ IF users[userId] = <<>> \/ users[contactId] = <<>>
       THEN cres' = 404 /\ UNCHANGED calls
       ELSE /\ Len(calls[userId]) < MaxLog
            /\ calls' = [calls EXCEPT ![userId] =
                            Append(@, [contactId |-> contactId, type |-> "voice",
                                       direction |-> "outgoing", missed |-> FALSE,
                                       timestamp |-> now])]
            /\ cres' = 200
    /\ emitted' = {}
    /\ UNCHANGED <<users, contacts, chats, statuses, userSockets, sock, cpc,
                   cloc, now>>
    /\ ChatFrame

\* --------------------------------------------------------------- sockets
\* io.on('connection')
Connect(s) ==
    /\ sock[s] = "new"
    /\ sock' = [sock EXCEPT ![s] = "open"]
    /\ emitted' = {}
    /\ UNCHANGED <<users, contacts, chats, statuses, calls, userSockets,
                   cpc, cloc, cres, now>>
    /\ ChatFrame

\* userSockets[userId] = socket: an existing key keeps its place.
SetSocket(entries, userId, s) ==
    IF \E i \in DOMAIN entries : entries[i].userId = userId
    THEN [i \in DOMAIN entries |->
             IF entries[i].userId = userId THEN [userId |-> userId, socket |-> s]
             ELSE entries[i]]
    ELSE Append(entries, [userId |-> userId, socket |-> s])

\* socket.on('register')
Register(s, userId) ==
    /\ sock[s] = "open"
    /\ userSockets' = SetSocket(userSockets, userId, s)
    /\ IF users[userId] # <<>>
       THEN /\ users' = [users EXCEPT ![userId][1].settings =
                            [@ EXCEPT !.online = TRUE, !.lastSeen = now]]
            /\ emitted' =
                 {[to |-> e.socket, event |-> "userOnline", user |-> userId] :
                     e \in {x \in Range(userSockets') :
                               x.userId \in Range(contacts[userId])}}
       ELSE /\ UNCHANGED users
            /\ emitted' = {}
    /\ UNCHANGED <<contacts, chats, statuses, calls, sock, cpc, cloc, cres,
                   now>>
    /\ ChatFrame

\* socket.on('typing')
Typing(s, userId, contactId) ==
    /\ sock[s] = "open"
    /\ emitted' = EmitTo({contactId}, "typing", userId)
    /\ UNCHANGED <<users, contacts, chats, statuses, calls, userSockets, sock,
                   cpc, cloc, cres, now>>
    /\ ChatFrame

\* socket.on('disconnect'): the first entry of userSockets holding this
\* socket is handled and removed, then the loop breaks.
Disconnect(s) ==
    /\ sock[s] = "open"
    /\ sock' = [sock EXCEPT ![s] = "closed"]
    /\ LET Mine(e) == e.socket = s
           Other(e) == e.userId # userSockets[FindIndex(userSockets, Mine)].userId
           idx == FindIndex(userSockets, Mine)
       IN IF idx = 0
          THEN UNCHANGED <<users, userSockets>> /\ emitted' = {}
          ELSE LET userId == userSockets[idx].userId
               IN /\ IF users[userId] # <<>>
                     THEN /\ users' = [users EXCEPT ![userId][1].settings =
                                          [@ EXCEPT !.online = FALSE, !.lastSeen = now]]
                          /\ emitted' = EmitTo(Range(contacts[userId]), "userOffline", userId)
                     ELSE UNCHANGED users /\ emitted' = {}
                  /\ userSockets' = SelectSeq(userSockets, Other)
    /\ UNCHANGED <<contacts, chats, statuses, calls, cpc, cloc, cres, now>>
    /\ ChatFrame

(***************************************************************************)
(* Initial state and specifications.                                       *)
(***************************************************************************)
InitPanel ==
    /\ gmailUser \in {<<>>, AdminAddress}
    /\ usersFile = <<>>
    /\ servicesFile = <<>>
    /\ ordersFile = <<>>
    /\ fileBytes = [f \in {"users", "services", "orders"} |-> [size |-> 3, nl |-> 1]]
    /\ sessions = <<>>
    /\ clientSid = [c \in Clients |-> 0]
    /\ pc = [h \in Handlers |-> "idle"]
    /\ loc = [h \in Handlers |-> IdleLoc]
    /\ res = Resp(0, <<>>)

InitServerless ==
    /\ slOrders = <<>>
    /\ slPc = "idle"
    /\ slOrder = <<>>
    /\ slRes = SlResp(0, <<>>)
    /\ slServices = <<>>

InitChat ==
    /\ users = [id \in UserIds |-> <<>>]
    /\ contacts = [id \in UserIds |-> <<>>]
    /\ chats = [id \in UserIds |-> [c \in UserIds |-> <<>>]]
    /\ statuses = [id \in UserIds |-> <<>>]
    /\ calls = [id \in UserIds |-> <<>>]
    /\ userSockets = <<>>
    /\ sock = [s \in Sockets |-> "new"]
    /\ cpc = [h \in Handlers |-> "idle"]
    /\ cloc = [h \in Handlers |-> ChatIdle]
    /\ cres = 0
    /\ emitted = {}

Init ==
    /\ now = 1
    /\ nextUuid = 1
    /\ InitPanel
    /\ InitServerless
    /\ InitChat

\* Start-up without GMAIL_USER in the environment (the chat server reads none).
InitNoMail == Init /\ gmailUser = <<>>

AllIdle == \A h \in Handlers : pc[h] = "idle"

\* Requests handled one at a time: a request arrives only when no other is
\* in flight.
NextSeq ==
    \/ AllIdle /\ \E c \in Clients, b \in SeqSignupBodies : SignupStart(1, c, b)
    \/ AllIdle /\ \E c \in Clients, b \in LoginBodies : LoginStart(1, c, b)
    \/ AllIdle /\ \E c \in Clients : Me(c)
    \/ AllIdle /\ \E c \in Clients : Logout(1, c)
    \/ AllIdle /\ \E c \in Clients : ServicesList(1, c)
    \/ AllIdle /\ \E c \in Clients, b \in AddBodies : AdminAddStart(1, c, b)
    \/ AllIdle /\ \E c \in Clients, b \in DeleteBodies : AdminDeleteStart(1, c, b)
    \/ AllIdle /\ \E c \in Clients, b \in ToggleBodies : AdminToggleStart(1, c, b)
    \/ AllIdle /\ \E c \in Clients, b \in OrderBodies : OrderStart(1, c, b)
    \/ AllIdle /\ \E c \in Clients : AdminOrdersStart(1, c)
    \/ AllIdle /\ \E c \in Clients, b \in StatusBodies : AdminStatusStart(1, c, b)
    \/ SignupRead(1) \/ SignupHashed(1) \/ SignupWritten(1)
    \/ LoginRead(1) \/ LoginCompared(1)
    \/ LogoutDestroyed(1)
    \/ ServicesListRead(1)
    \/ AdminAddRead(1) \/ AdminAddWritten(1)
    \/ AdminDeleteRead(1) \/ AdminDeleteWritten(1)
    \/ AdminToggleRead(1) \/ AdminToggleWritten(1)
    \/ OrderServicesRead(1) \/ OrderOrdersRead(1) \/ OrderWritten(1)
    \/ \E sent \in BOOLEAN : OrderMailed(1, sent)
    \/ AdminOrdersRead(1)
    \/ AdminStatusRead(1) \/ AdminStatusWritten(1)
    \/ FileRead(1) \/ FileOpened(1) \/ FileWritten(1)
    \/ Tick

SpecSeq == Init /\ [][NextSeq]_vars

\* Signups and logins interleaving at every await.  The logins: "A" with the
\* password of the signups and "b" with another.
RaceLoginBodies ==
    {[username |-> <<65>>, password |-> "p"], [username |-> <<98>>, password |-> "q"]}

NextSignup ==
    \/ \E h \in Handlers, c \in Clients, b \in SignupBodies : SignupStart(h, c, b)
    \/ \E h \in Handlers, c \in Clients, b \in RaceLoginBodies : LoginStart(h, c, b)
    \/ \E c \in Clients : Me(c)
    \/ \E h \in Handlers, c \in Clients : Logout(h, c)
    \/ \E h \in Handlers : LogoutDestroyed(h)
    \/ \E h \in Handlers : SignupRead(h)
    \/ \E h \in Handlers : SignupHashed(h)
    \/ \E h \in Handlers : SignupWritten(h)
    \/ \E h \in Handlers : LoginRead(h)
    \/ \E h \in Handlers : LoginCompared(h)
    \/ \E h \in Handlers : FileRead(h)
    \/ \E h \in Handlers : FileOpened(h)
    \/ \E h \in Handlers : FileWritten(h)

SpecSignup == Init /\ [][NextSignup]_vars

\* Order placement in both variants, one request at a time: the panel with an
\* administrator who publishes a service, places orders and updates them, and
\* the serverless handler.  The two deployments share no state.
OrdersSignupBodies == {SignupBody(<<97>>, <<97, 100>>)}
OrdersAddBodies    == {[platform |-> <<105, 103>>, name |-> <<102>>, price |-> 5]}

NextOrders ==
    \/ AllIdle /\ \E c \in Clients, b \in OrdersSignupBodies : SignupStart(1, c, b)
    \/ AllIdle /\ \E c \in Clients, b \in OrdersAddBodies : AdminAddStart(1, c, b)
    \/ AllIdle /\ \E c \in Clients, b \in OrderBodies : OrderStart(1, c, b)
    \/ AllIdle /\ \E c \in Clients, b \in StatusBodies : AdminStatusStart(1, c, b)
    \/ SignupRead(1) \/ SignupHashed(1) \/ SignupWritten(1)
    \/ AdminAddRead(1) \/ AdminAddWritten(1)
    \/ OrderServicesRead(1) \/ OrderOrdersRead(1) \/ OrderWritten(1)
    \/ \E sent \in BOOLEAN : OrderMailed(1, sent)
    \/ AdminStatusRead(1) \/ AdminStatusWritten(1)
    \/ FileRead(1) \/ FileOpened(1) \/ FileWritten(1)
    \/ \E m \in {"POST", "GET"}, b \in SlOrderBodies : SlOrderStart(m, b)
    \/ \E sent \in BOOLEAN : SlOrderMailed(sent)
    \/ Tick

SpecOrders == Init /\ [][NextOrders]_vars

\* Order placements and status updates interleaving at every await, after an
\* administrator has signed up and published a service one request at a time.
OrdersOnly ==
    \A h \in Handlers : pc[h] \in OrderPcs \cup {"idle", "admstat_read", "admstat_write"}

\* The status updates of the interleaved runs: for the ids the clock can
\* give, to two statuses of different length.
RaceStatusBodies == [id : {1, 2}, status : {"done", "cancelled"}]

NextRace ==
    \/ AllIdle /\ \E c \in Clients, b \in OrdersSignupBodies : SignupStart(1, c, b)
    \/ AllIdle /\ \E c \in Clients, b \in OrdersAddBodies : AdminAddStart(1, c, b)
    \/ SignupRead(1) \/ SignupHashed(1) \/ SignupWritten(1)
    \/ AdminAddRead(1) \/ AdminAddWritten(1)
    \/ OrdersOnly /\ \E h \in Handlers, c \in Clients, b \in OrderBodies :
                        OrderStart(h, c, b)
    \/ OrdersOnly /\ \E h \in Handlers, c \in Clients, b \in RaceStatusBodies :
                        AdminStatusStart(h, c, b)
    \/ \E h \in Handlers : OrderServicesRead(h)
    \/ \E h \in Handlers : OrderOrdersRead(h)
    \/ \E h \in Handlers : OrderWritten(h)
    \/ \E h \in Handlers, sent \in BOOLEAN : OrderMailed(h, sent)
    \/ \E h \in Handlers : AdminStatusRead(h)
    \/ \E h \in Handlers : AdminStatusWritten(h)
    \/ \E h \in Handlers : FileRead(h)
    \/ \E h \in Handlers : FileOpened(h)
    \/ \E h \in Handlers : FileWritten(h)
    \/ Tick

SpecRace == Init /\ [][NextRace]_vars

\* A new chat request takes the first slot that holds no suspended request.
FreeSlot(h) ==
    /\ cpc[h] = "idle"
    /\ \A k \in Handlers : k < h => cpc[k] # "idle"

\* The chat server's conversations: signup, login and a profile update, one
\* of them suspended at bcrypt at a time, with the message routes, contacts
\* and the events of one socket running at any moment in between.
MsgSignupBodies == {[firstName |-> "Al", lastName |-> "B", password |-> "secret"]}
MsgLoginBodies  == [id : {HexaMin}, password : {"secret", "wrong1"}]
MsgUpdateBodies == {b \in UpdateBodies : b.firstName = "Zed" /\ b.password = ""}

NextChat ==
    \/ \E r \in {0, 1}, b \in MsgSignupBodies : ChatSignupStart(1, r, b)
    \/ ChatSignupHashed(1)
    \/ \E b \in MsgLoginBodies : ChatLoginStart(1, b)
    \/ ChatLoginCompared(1)
    \/ \E b \in MsgUpdateBodies : UpdateStart(1, HexaMin, b)
    \/ \E u, c \in UserIds : AddContact(u, c)
    \/ \E u, c \in UserIds, t \in MessageTexts : SendMessage(u, c, t)
    \/ \E u, c \in UserIds : MarkRead(u, c)
    \/ Connect(1)
    \/ \E u \in UserIds : Register(1, u)
    \/ \E u, c \in UserIds : Typing(1, u, c)
    \/ Disconnect(1)

SpecChat == InitNoMail /\ [][NextChat]_vars

\* The chat server's inboxes: signups, up to NumHandlers of them suspended at
\* once, with contacts, sends, mark-read and the routes that read them
\* running at any moment in between.
NextInbox ==
    \/ \E h \in Handlers, r \in {0, 1}, b \in MsgSignupBodies :
          FreeSlot(h) /\ ChatSignupStart(h, r, b)
    \/ \E h \in Handlers : ChatSignupHashed(h)
    \/ \E u, c \in UserIds : AddContact(u, c)
    \/ \E u \in UserIds : GetContacts(u)
    \/ \E u, c \in UserIds, t \in MessageTexts : SendMessage(u, c, t)
    \/ \E u, c \in UserIds : GetChat(u, c)
    \/ \E u, c \in UserIds : MarkRead(u, c)

SpecInbox == InitNoMail /\ [][NextInbox]_vars

\* The chat server's user store: signups, logins and profile updates, up to
\* NumHandlers of them suspended at once, with statuses, calls and the routes
\* that read them running at any moment in between.
NextChatUsers ==
    \/ \E h \in Handlers, r \in {0, 1}, b \in ChatSignupBodies :
          FreeSlot(h) /\ ChatSignupStart(h, r, b)
    \/ \E h \in Handlers : ChatSignupHashed(h)
    \/ \E h \in Handlers, b \in ChatLoginBodies : FreeSlot(h) /\ ChatLoginStart(h, b)
    \/ \E h \in Handlers : ChatLoginCompared(h)
    \/ \E h \in Handlers, id \in UserIds, b \in UpdateBodies :
          FreeSlot(h) /\ UpdateStart(h, id, b)
    \/ \E h \in Handlers : UpdateHashed(h)
    \/ \E u \in UserIds : GetUser(u)
    \/ \E u \in UserIds, media \in {"", "m"} : AddStatus(u, media)
    \/ \E u \in UserIds : GetStatuses(u)
    \/ \E u, c \in UserIds : AddCall(u, c)
    \/ \E u \in UserIds : GetCalls(u)

SpecChatUsers == InitNoMail /\ [][NextChatUsers]_vars

\* The chat server's sockets: two sockets that connect, register user ids,
\* type and disconnect at any moment around signups, contacts and sends.
SockSignupBodies == {[firstName |-> "Al", lastName |-> "B", password |-> "secret"]}
SockMessageTexts == {<<32, 104, 105>>}                   \* " hi"

NextSockets ==
    \/ \E r \in {0, 1}, b \in SockSignupBodies : ChatSignupStart(1, r, b)
    \/ ChatSignupHashed(1)
    \/ \E u, c \in UserIds : AddContact(u, c)
    \/ \E u, c \in UserIds, t \in SockMessageTexts : SendMessage(u, c, t)
    \/ \E s \in Sockets : Connect(s)
    \/ \E s \in Sockets, u \in UserIds : Register(s, u)
    \/ \E s \in Sockets, u, c \in UserIds : Typing(s, u, c)
    \/ \E s \in Sockets : Disconnect(s)

SpecSockets == InitNoMail /\ [][NextSockets]_vars

\* The serverless variant: its services handler and its order handler.
NextServerless ==
    \/ \E method \in {"GET", "POST", "DELETE", "PUT"}, cookie \in SlCookies,
          b \in SlServiceBodies : SlServices(method, cookie, b)
    \/ \E m \in {"POST", "GET"}, b \in SlOrderBodies : SlOrderStart(m, b)
    \/ \E sent \in BOOLEAN : SlOrderMailed(sent)

SpecServerless == InitNoMail /\ [][NextServerless]_vars

(***************************************************************************)
(* CLAIMS                                                                  *)
(***************************************************************************)

\* C1 (SpecSignup): however signups interleave at their awaits and their
\* writes overlap, the list users.json holds never has two users whose
\* usernames are equal ignoring case, nor two whose emails are equal ignoring
\* case: also not the list at the start of a file that the end of a longer,
\* overlapped write has made unreadable.
C1_UniqueUsers ==
    \A i, j \in DOMAIN usersFile :
        i # j => /\ toLowerCase(usersFile[i].username) # toLowerCase(usersFile[j].username)
                 /\ toLowerCase(usersFile[i].email) # toLowerCase(usersFile[j].email)

\* Two interleaved signups with clashing usernames both passed the check: one
\* has written its user, the other is about to write its own list.
C1_Witness ==
    \E h \in Handlers :
        /\ pc[h] = "signup_write"
        /\ loc[h].io = "asked"
        /\ Parses("users")
        /\ \E i \in DOMAIN usersFile :
              toLowerCase(usersFile[i].username) = toLowerCase(loc[h].tmp[1].username)

\* A request to one of the five admin routes from client c arrives.
AdminRouteStart(c) ==
    \/ \E b \in AddBodies : AdminAddStart(1, c, b)
    \/ \E b \in DeleteBodies : AdminDeleteStart(1, c, b)
    \/ \E b \in ToggleBodies : AdminToggleStart(1, c, b)
    \/ AdminOrdersStart(1, c)
    \/ \E b \in StatusBodies : AdminStatusStart(1, c, b)

\* C2 (SpecSeq): a request to an admin route whose session has no user is
\* answered 401, and one whose session user's email differs, ignoring case,
\* from the administrator address (or when none is configured) is answered
\* 403; the rejected request carries no order data, never reaches the
\* handler and leaves services.json and orders.json unchanged.
C2_AdminOnly ==
    [][\A c \in Clients :
          AdminRouteStart(c) =>
             /\ ReqSession(c) = <<>> => res'.status = 401
             /\ (/\ ReqSession(c) # <<>>
                 /\ \/ gmailUser = <<>>
                    \/ toLowerCase(ReqSession(c)[1].email) # toLowerCase(gmailUser))
                => res'.status = 403
             /\ res'.status \in {401, 403}
                => /\ res'.data = <<>>
                   /\ pc' = pc
                   /\ servicesFile' = servicesFile
                   /\ ordersFile' = ordersFile
                   /\ fileBytes' = fileBytes]_vars

\* A signed-in customer has just been refused by an admin route while orders
\* and services are stored.
C2_Witness ==
    /\ res.status = 403
    /\ AllIdle
    /\ ordersFile # <<>> /\ servicesFile # <<>>
    /\ gmailUser # <<>>
    /\ ReqSession("c1") # <<>>
    /\ toLowerCase(ReqSession("c1")[1].email) # toLowerCase(gmailUser)

\* C5 (SpecOrders): in both variants, when the notification mail fails the
\* order that passed validation is in the orders store and stays there.
C5_RecordedDespiteMailFailure ==
    [][/\ OrderMailed(1, FALSE)
          => /\ ordersFile' = ordersFile
             /\ \E i \in DOMAIN ordersFile' : ordersFile'[i] = loc[1].tmp[1]
       /\ SlOrderMailed(FALSE)
          => /\ slOrders' = slOrders
             /\ \E i \in DOMAIN slOrders' : slOrders'[i] = slOrder[1]]_vars

\* The panel has answered a placement whose mail failed, and the order is
\* stored; so has the serverless handler.
C5_Witness ==
    /\ res.status = 500 /\ ordersFile # <<>>
    /\ slRes.status = 200 /\ slOrders # <<>>

\* C6 (SpecOrders), as claimed: whenever the order has been recorded, the
\* caller receives the success response whether the mail succeeds or fails.
C6_SuccessWheneverRecorded ==
    [][/\ \A sent \in BOOLEAN : OrderMailed(1, sent) => res'.status = 200
       /\ \A sent \in BOOLEAN : SlOrderMailed(sent) => slRes'.status = 200]_vars

\* C7 (SpecSeq): with requests handled one at a time, orders.json changes
\* only while a request rewrites it: the file is opened for the write, with
\* its earlier content gone until the data lands, and then holds the list the
\* request wrote and no byte more.  That list is the earlier content with one order appended
\* or, for an admin status update only, the earlier content with nothing but
\* the status of an order with the requested id changed: every other order
\* and the number and order of the orders are kept.  A status update for an
\* unknown id is answered 404 and writes nothing.
C7_OnlyStatusUpdate ==
    [][/\ \/ ordersFile' = ordersFile
          \/ /\ FileOpened(1)
             /\ pc[1] \in {"order_write", "admstat_write"}
             /\ ordersFile' = <<>>
             /\ LET new == loc[1].list
                IN \/ /\ Len(new) = Len(ordersFile) + 1
                      /\ SubSeq(new, 1, Len(ordersFile)) = ordersFile
                   \/ /\ pc[1] = "admstat_write"
                      /\ Len(new) = Len(ordersFile)
                      /\ \E i \in DOMAIN ordersFile :
                            /\ ordersFile[i].id = loc[1].body.id
                            /\ \A j \in DOMAIN ordersFile :
                                  j # i => new[j] = ordersFile[j]
                            /\ new[i] =
                                  [ordersFile[i] EXCEPT !.status = loc[1].body.status]
          \/ /\ FileWritten(1)
             /\ pc[1] \in {"order_write", "admstat_write"}
             /\ ordersFile = <<>>
             /\ ordersFile' = loc[1].list
             /\ fileBytes'.orders = [size |-> FileLen("orders", loc[1].list), nl |-> 1]
       /\ (/\ AdminStatusRead(1)
           /\ \A i \in DOMAIN ordersFile : ordersFile[i].id # loc[1].body.id)
          => /\ res'.status = 404
             /\ pc'[1] = "idle"
             /\ ordersFile' = ordersFile]_vars

\* A status update has changed the second of two stored orders that differ
\* only in their ids.
C7_Witness ==
    /\ AllIdle
    /\ res.status = 200
    /\ Len(ordersFile) = 2
    /\ ordersFile[1].status = "in progress"
    /\ ordersFile[2].status = "done"

\* C8 (SpecOrders), as claimed: the status of every stored order is one of
\* "in progress", "done" and "Pending".
C8_StatusEnum ==
    /\ \A i \in DOMAIN ordersFile : ordersFile[i].status \in {"in progress", "done", "Pending"}
    /\ \A i \in DOMAIN slOrders : slOrders[i].status \in {"in progress", "done", "Pending"}

\* C9 (SpecRace): the write of an order placement replaces orders.json by the
\* list the handler read earlier plus its own order, so an order that another
\* placement wrote in between, and that is not in that list, is no longer in
\* the file: two interleaved placements can both complete their writes and
\* leave only one order stored.
C9_WriteOverwrites ==
    [][\A h, g \in Handlers :
          (/\ FileWritten(h)
           /\ pc[h] = "order_write"
           /\ g # h
           /\ pc[g] = "order_mail"
           /\ \A i \in DOMAIN loc[h].list : loc[h].list[i] # loc[g].tmp[1])
          => \A i \in DOMAIN ordersFile' : ordersFile'[i] # loc[g].tmp[1]]_vars

\* Both placements have written (each awaits its mail), their orders differ,
\* and orders.json parses and holds one order only.
C9_Witness ==
    \E h, g \in Handlers :
        /\ pc[h] = "order_mail" /\ pc[g] = "order_mail"
        /\ loc[h].tmp[1] # loc[g].tmp[1]
        /\ Parses("orders")
        /\ ordersFile = <<loc[h].tmp[1]>>

\* ------------------------------------------------------------------- C3
\* C3: in the chat server a marked-read message stays read.  Every step of
\* a send, a mark-read, an add-contact, a login, a profile update or a socket
\* event (every step but the assignment a signup makes) leaves each message
\* that has read = TRUE in chats[U][C] in its place, unchanged.
C3_ReadStaysRead ==
    [][(\E h \in Handlers : ChatSignupHashed(h))
       \/ \A u, c \in UserIds :
             \A i \in 1..Len(ChatList(u, c)) :
                ChatList(u, c)[i].read =>
                   /\ chats'[u][c] # <<>>
                   /\ Len(chats'[u][c][1]) >= i
                   /\ chats'[u][c][1][i] = ChatList(u, c)[i]]_vars

\* A message was marked read and a later send has been pushed behind it.
C3_Witness ==
    \E u, c \in UserIds :
       /\ Len(ChatList(u, c)) >= 2
       /\ ChatList(u, c)[1].read
       /\ cres = 200

\* ------------------------------------------------------------------- C4
\* What one list holds, leaving the read flags out.
Sent(list) ==
    [i \in DOMAIN list |->
        [sender |-> list[i].sender, message |-> list[i].message,
         timestamp |-> list[i].timestamp]]

\* C4: every successful send from A to B, A = B included, appends exactly
\* one copy of the message to chats[A][B] and exactly one to chats[B][A],
\* and afterwards the two lists hold the same messages in the same order.
C4_OneCopyPerInbox ==
    [][\A a, b \in UserIds, t \in MessageTexts :
          (SendMessage(a, b, t) /\ cres' = 200) =>
             /\ chats'[a][b] # <<>> /\ chats'[b][a] # <<>>
             /\ Len(chats'[a][b][1]) = Len(ChatList(a, b)) + 1
             /\ Len(chats'[b][a][1]) = Len(ChatList(b, a)) + 1
             /\ Sent(chats'[a][b][1]) = Sent(chats'[b][a][1])]_vars

\* ------------------------------------------------------------------ C10
\* users[id] without the settings that login and the socket events write.
Profile(u) == [u EXCEPT !.settings = [theme |-> "light", online |-> FALSE, lastSeen |-> 0]]

\* C10: a user once present stays present; no signup replaces the record or
\* resets the contacts, chats, statuses or calls of an existing user; and the
\* name, credential and profile fields of an existing user change only in
\* a step of that user's own profile update.
C10_NeverReplaced ==
    [][\A id \in UserIds :
          users[id] # <<>> =>
             /\ users'[id] # <<>>
             /\ (\E h \in Handlers : ChatSignupHashed(h)) =>
                    /\ users'[id] = users[id]
                    /\ contacts'[id] = contacts[id]
                    /\ chats'[id] = chats[id]
                    /\ statuses'[id] = statuses[id]
                    /\ calls'[id] = calls[id]
             /\ Profile(users'[id][1]) # Profile(users[id][1]) =>
                    \/ \E h \in Handlers, b \in UpdateBodies : UpdateStart(h, id, b)
                    \/ \E h \in Handlers : UpdateHashed(h) /\ cloc[h].id = id]_vars

\* ------------------------------------------------------------------ C11
\* C11: a successful send from A to B emits exactly one newMessage event, to
\* the socket userSockets holds for B at that moment, and emits nothing when
\* userSockets holds none for B; either way the message is stored in both
\* lists and the sender is answered with success.
C11_ForwardIfConnected ==
    [][\A a, b \in UserIds, t \in MessageTexts :
          (SendMessage(a, b, t) /\ users[a] # <<>> /\ users[b] # <<>>
              /\ t # <<>> /\ trim(t) # <<>>) =>
             /\ cres' = 200
             /\ LET to == {e \in Range(userSockets) : e.userId = b}
                IN IF to = {}
                   THEN emitted' = {}
                   ELSE /\ Cardinality(emitted') = 1
                        /\ \A ev \in emitted' :
                              /\ ev.event = "newMessage"
                              /\ ev.user = a
                              /\ \E e \in to : ev.to = e.socket
             /\ chats'[a][b] # <<>> /\ chats'[b][a] # <<>>
             /\ Len(chats'[a][b][1]) > Len(ChatList(a, b))
             /\ Len(chats'[b][a][1]) > Len(ChatList(b, a))
             /\ chats'[b][a][1][Len(chats'[b][a][1])].sender = a
             /\ chats'[b][a][1][Len(chats'[b][a][1])].message = trim(t)]_vars

\* A send was answered with success and notified the recipient's socket while
\* another socket, registered for the sender only, got nothing.
C11_Witness ==
    /\ cres = 200
    /\ \E ev \in emitted :
          /\ ev.event = "newMessage"
          /\ \E e \in Range(userSockets) : e.userId # ev.user /\ e.socket = ev.to
          /\ \E e \in Range(userSockets) : e.userId = ev.user /\ e.socket # ev.to

\* ------------------------------------------------------------------ C12
\* C12: in the serverless services handler a POST or DELETE request from a
\* caller who is not the administrator, a caller that sends no cookie at all
\* included, does not change the stored services.json.
C12_CatalogAdminOnly ==
    [][\A method \in {"POST", "DELETE"}, b \in SlServiceBodies :
          SlServices(method, <<>>, b) => slServices' = slServices]_vars

\* ------------------------------------------------------------------ C13
\* The catalog `file` offers platform p's service s: the first block of that
\* platform, the one the order lookup takes, holds an active service of that
\* name, ignoring case.
Offered(file, p, s) ==
    LET IsP(blk) == LowerEq(blk.platform, p)
        pIdx == FindIndex(file, IsP)
    IN /\ pIdx # 0
       /\ \E k \in DOMAIN file[pIdx].services :
             /\ LowerEq(file[pIdx].services[k].name, s)
             /\ file[pIdx].services[k].active

\* The catalog `file` holds platform p and no longer offers its service s:
\* the service was deleted or is inactive.
Withdrawn(file, p, s) ==
    /\ \E i \in DOMAIN file : LowerEq(file[i].platform, p)
    /\ ~Offered(file, p, s)

\* C13 as stated (SpecSeq): once a service is inactive or deleted, every
\* POST /api/order naming it is answered 400 and leaves orders.json
\* unchanged, whether the answer comes before the handler's first await or
\* from the lookup after it.
C13_AlwaysAnswered400 ==
    [][/\ \A c \in Clients, b \in OrderBodies :
             (OrderStart(1, c, b) /\ Withdrawn(servicesFile, b.platform, b.service)) =>
                /\ pc'[1] = "order_svc" \/ res'.status = 400
                /\ ordersFile' = ordersFile
       /\ (OrderServicesRead(1)
             /\ Withdrawn(servicesFile, loc[1].body.platform, loc[1].body.service)) =>
             /\ res'.status = 400
             /\ ordersFile' = ordersFile]_vars

\* C13, amended (SpecSeq): in the panel, one request at a time, an order is
\* recorded only for a service that exists and is active.  A toggle to
\* inactive and a delete leave the named service not offered; services.json
\* changes only while a request rewrites it, and the list a request writes
\* offers a service that the file did not offer only if the request is a
\* toggle to active or an add naming it; and a POST /api/order naming a
\* service not offered is answered 401 when its session has no user and 400
\* otherwise, at once or from the lookup, with orders.json unchanged.
C13_OnlyActiveServices ==
    [][/\ (AdminToggleWritten(1) /\ ~loc[1].body.active) =>
             ~Offered(servicesFile', loc[1].body.platform, loc[1].body.name)
       /\ AdminDeleteWritten(1) =>
             ~Offered(servicesFile', loc[1].body.platform, loc[1].body.name)
       /\ \/ servicesFile' = servicesFile
          \/ /\ FileOpened(1)
             /\ servicesFile' = <<>>
             /\ \A i \in DOMAIN loc[1].list :
                   \A k \in DOMAIN loc[1].list[i].services :
                      LET p == loc[1].list[i].platform
                          sv == loc[1].list[i].services[k]
                      IN (sv.active /\ ~Offered(servicesFile, p, sv.name)) =>
                            /\ \/ pc[1] = "svcadd_write"
                               \/ pc[1] = "svctog_write" /\ loc[1].body.active
                            /\ LowerEq(loc[1].body.platform, p)
                            /\ LowerEq(loc[1].body.name, sv.name)
          \/ /\ FileWritten(1)
             /\ servicesFile = <<>>
             /\ servicesFile' = loc[1].list
             /\ fileBytes'.services = [size |-> FileLen("services", loc[1].list), nl |-> 1]
       /\ \A c \in Clients, b \in OrderBodies :
             (OrderStart(1, c, b) /\ ~Offered(servicesFile, b.platform, b.service)) =>
                /\ ReqSession(c) = <<>> => (res'.status = 401 /\ pc' = pc)
                /\ ReqSession(c) # <<>> =>
                      \/ res'.status = 400 /\ pc' = pc
                      \/ pc'[1] = "order_svc" /\ loc'[1].body = b /\ res' = res
                /\ ordersFile' = ordersFile
       /\ (OrderServicesRead(1)
             /\ ~Offered(servicesFile, loc[1].body.platform, loc[1].body.service)) =>
             /\ res'.status = 400
             /\ pc'[1] = "idle"
             /\ ordersFile' = ordersFile]_vars

\* An order naming a service that is stored but inactive is at its lookup.
C13_Witness ==
    /\ pc[1] = "order_svc"
    /\ ~Offered(servicesFile, loc[1].body.platform, loc[1].body.service)
    /\ \E i \in DOMAIN servicesFile :
          /\ LowerEq(servicesFile[i].platform, loc[1].body.platform)
          /\ \E k \in DOMAIN servicesFile[i].services :
                /\ LowerEq(servicesFile[i].services[k].name, loc[1].body.service)
                /\ ~servicesFile[i].services[k].active

\* ------------------------------------------------------------------ C14
\* C14: once the disconnect event of a socket S has been handled,
\* userSockets holds no entry whose value is S, and every existing user that
\* was registered on S is marked offline, a socket that registered more
\* than one user id included.
C14_DisconnectCleansUp ==
    [][\A s \in Sockets :
          Disconnect(s) =>
             /\ \A e \in Range(userSockets') : e.socket # s
             /\ \A e \in Range(userSockets) :
                   (e.socket = s /\ users[e.userId] # <<>>) =>
                      ~users'[e.userId][1].settings.online]_vars

\* ------------------------------------------------------------------ C15
\* C15: a profile update rejected with 400 (password shorter than 6
\* characters) or with 404 (no such user) leaves the whole users store
\* unchanged.
C15_RejectedUpdateChangesNothing ==
    [][\A h \in Handlers, id \in UserIds, b \in UpdateBodies :
          (UpdateStart(h, id, b) /\ cpc'[h] = "idle" /\ cres' \in {400, 404}) =>
             users' = users]_vars

\* ------------------------------------------------------------------ C16
\* C16: in the panel no two stored orders have the same id, whatever the
\* clock returned when they were built.
C16_UniqueOrderIds ==
    \A i, j \in DOMAIN ordersFile :
       i # j => ordersFile[i].id # ordersFile[j].id

====
